---- MODULE Spec2Model ----
(***************************************************************************)
(* Rick-and-Morty to HubSpot migration: the retry wrapper, the three-phase *)
(* migration of src/services/hubspotMigrationService.js and the            *)
(* per-character migration loop of the earlier service draft.              *)
(***************************************************************************)
EXTENDS Integers, Sequences, FiniteSets, TLC

VARIABLES
    retry,      \* state of one makeHubspotApiCallWithRetry invocation
    attempts,   \* the outcomes the wrapped operation produced, in order
    origin,     \* catalog: character id -> origin location URL (or NoUrl)
    locName,    \* catalog: location URL -> location name
    hub,        \* the destination account: companies, contacts, associations
    mig,        \* local state of one run of migrateRickAndMortyToHubspot
    run,        \* "first" or "second": which run of the migration this is
    lastOp,     \* the last remote call the run issued, NoCall after a step without one
    hist        \* history of the behaviour, read by the properties only

vars == <<retry, attempts, origin, locName, hub, mig, run, lastOp, hist>>

(***************************************************************************)
(* makeHubspotApiCallWithRetry (hubspotMigrationService.js:16-44)          *)
(***************************************************************************)
MAX_HUBSPOT_RETRIES == 3
HUBSPOT_INITIAL_RETRY_DELAY_MS == 2000

\* Values of the retry-after header: Absent when the response carries none,
\* otherwise the number of seconds it states.
Absent == -2
\* JavaScript's NaN, the result of parseInt on an absent header.
NaN == -1

\* The largest wait hint (seconds) a rate-limit response carries in the model.
MaxHint == 5

Hints == {Absent} \cup (0 .. MaxHint)

\* What one call of the wrapped operation can produce: a response, or an error
\* with error.response.status (0 when there is no response), error.code and
\* the retry-after header of the response.
Ok == [ok |-> TRUE, status |-> 200, code |-> "none", hint |-> Absent]
ApiError(status, code, hint) ==
    [ok |-> FALSE, status |-> status, code |-> code, hint |-> hint]

RateLimited == { ApiError(429, "none", h) : h \in Hints }
ServerErrors == { ApiError(500, "none", Absent), ApiError(503, "none", Absent) }
NetworkErrors == { ApiError(0, "ECONNABORTED", Absent), ApiError(0, "ETIMEDOUT", Absent) }
OtherErrors == { ApiError(400, "none", Absent), ApiError(404, "none", Absent),
                 ApiError(409, "none", Absent), ApiError(0, "ENOTFOUND", Absent) }

Transient == RateLimited \cup ServerErrors \cup NetworkErrors
Outcomes == {Ok} \cup Transient \cup OtherErrors

\* Math.pow(2, n)
Pow2(n) == 2 ^ n

\* parseInt(header, 10): NaN for an absent header.
ParseInt(h) == IF h = Absent THEN NaN ELSE h

\* x * 1000 in JavaScript arithmetic: NaN stays NaN.
Times1000(x) == IF x = NaN THEN NaN ELSE x * 1000

\* a || b on numbers: 0 and NaN are falsy.
OrElse(a, b) == IF a = NaN \/ a = 0 THEN b ELSE a

ShrinkingDelay(i) == HUBSPOT_INITIAL_RETRY_DELAY_MS * Pow2(MAX_HUBSPOT_RETRIES - i)

\* line 28: HUBSPOT_INITIAL_RETRY_DELAY_MS * Math.pow(2, i)
ExponentialDelay(i) == HUBSPOT_INITIAL_RETRY_DELAY_MS * Pow2(i)

\* line 23: parseInt(headers['retry-after'], 10) * 1000 || exponential delay
RateLimitDelay(e, i) == OrElse(Times1000(ParseInt(e.hint)), ExponentialDelay(i))

\* line 21
IsRateLimit(e) == e.status = 429

IsAnyHttpError(e) ==
    e.status >= 400 \/ e.code = "ECONNABORTED" \/ e.code = "ETIMEDOUT"

\* line 26
IsServerOrNetworkError(e) ==
    e.status >= 500 \/ e.code = "ECONNABORTED" \/ e.code = "ETIMEDOUT"

\* The error thrown at lines 41-43: a new Error whose originalError is args[0],
\* the first argument handed to the wrapped operation.
FinalError(args) ==
    [ok |-> FALSE, status |-> 0, code |-> "RETRIES_EXHAUSTED", hint |-> Absent,
     originalError |-> args[1]]

\* An argument handed to the wrapped operation.
Argument(what) == [argument |-> what]

\* The argument lists of the calls of the wrapper: the search request (lines
\* 135-149, 197-211), the id and the properties of an update (155-159,
\* 217-221), the properties of a create (163-166, 224-227), the object types
\* and the pair of an association (268-277).
CallArguments ==
    { <<Argument("search request")>>,
      <<Argument("record id"), Argument("properties")>>,
      <<Argument("properties")>>,
      <<Argument("contact"), Argument("company"), Argument("pair")>> }

NoError == [ok |-> TRUE, status |-> 0, code |-> "none", hint |-> Absent]

\* State of one invocation: i is the loop counter, calls counts the calls of the
\* wrapped operation, delays lists the delays slept, status is "running",
\* "returned" or "thrown", thrown is the error thrown to the caller, lastError
\* the error caught last (line 20) and args the arguments of the wrapped call.
RetryInit ==
    [i |-> 0, calls |-> 0, delays |-> <<>>, status |-> "running",
     thrown |-> NoError, lastError |-> NoError,
     args |-> <<Argument("search request")>>]

\* One pass through the loop body (lines 18-39) with the wrapped operation
\* producing outcome o.
RetryAttempt(r, o) ==
    IF o.ok
    THEN [r EXCEPT !.calls = @ + 1, !.status = "returned"]
    ELSE IF IsRateLimit(o)
    THEN [r EXCEPT !.calls = @ + 1, !.lastError = o, !.i = @ + 1,
                   !.delays = Append(@, RateLimitDelay(o, r.i))]
    ELSE IF IsServerOrNetworkError(o)
    THEN [r EXCEPT !.calls = @ + 1, !.lastError = o, !.i = @ + 1,
                   !.delays = Append(@, ExponentialDelay(r.i))]
    ELSE [r EXCEPT !.calls = @ + 1, !.lastError = o,
                   !.status = "thrown", !.thrown = o]

\* The loop condition (line 17) has failed: lines 41-43.
RetryExhausted(r) == [r EXCEPT !.status = "thrown", !.thrown = FinalError(r.args)]

LoopContinuesOffByOne(r) == r.i <= MAX_HUBSPOT_RETRIES

\* line 17: i < MAX_HUBSPOT_RETRIES
LoopContinues(r) == r.i < MAX_HUBSPOT_RETRIES

\* makeHubspotApiCallWithRetry run to its end on the outcomes outs of the
\* successive calls of the wrapped operation.
RECURSIVE RetryLoop(_, _)
RetryLoop(r, outs) ==
    IF r.status # "running" THEN r
    ELSE IF ~LoopContinues(r) \/ outs = <<>> THEN RetryExhausted(r)
    ELSE RetryLoop(RetryAttempt(r, Head(outs)), Tail(outs))

MakeHubspotApiCallWithRetry(outs) == RetryLoop(RetryInit, outs)

InitRetry ==
    /\ retry \in { [RetryInit EXCEPT !.args = a] : a \in CallArguments }
    /\ attempts = <<>>
    /\ origin = <<>>
    /\ locName = <<>>
    /\ hub = <<>>
    /\ mig = <<>>
    /\ run = "first"
    /\ lastOp = <<>>
    /\ hist = <<>>

RetryFrame == UNCHANGED <<origin, locName, hub, mig, run, lastOp, hist>>

Attempt ==
    /\ retry.status = "running"
    /\ LoopContinues(retry)
    /\ \E o \in Outcomes :
        /\ retry' = RetryAttempt(retry, o)
        /\ attempts' = Append(attempts, o)
    /\ RetryFrame

GiveUp ==
    /\ retry.status = "running"
    /\ ~LoopContinues(retry)
    /\ retry' = RetryExhausted(retry)
    /\ UNCHANGED attempts
    /\ RetryFrame

NextRetry == Attempt \/ GiveUp

SpecRetry == InitRetry /\ [][NextRetry]_vars

\* An invocation runs on whenever the awaited call or timer settles.
SpecRetryLive == SpecRetry /\ WF_vars(NextRetry)

(***************************************************************************)
(* Properties of the retry wrapper                                         *)
(***************************************************************************)
\* The error classes of the specification, stated on the error itself.
IsTransientError(o) ==
    /\ ~o.ok
    /\ \/ o.status = 429
       \/ o.status \in 500 .. 599
       \/ o.code \in {"ECONNABORTED", "ETIMEDOUT"}

IsNonRetryableError(o) == ~o.ok /\ ~IsTransientError(o)

AllTransient(s) == \A k \in 1 .. Len(s) : IsTransientError(s[k])

NonDecreasing(s) == \A k \in 1 .. Len(s) - 1 : s[k] <= s[k + 1]

\* A rate-limit response whose retry-after header yields the delay.
CarriesWaitHint(o) == o.status = 429 /\ o.hint # Absent /\ o.hint # 0

RetryAttemptBound ==
    /\ retry.calls <= 3
    /\ retry.calls = Len(attempts)
    /\ retry.status # "running" => retry.calls >= 1
    /\ (Len(attempts) = 3 /\ AllTransient(attempts) /\ retry.status # "running")
          => (retry.status = "thrown" /\ retry.thrown = FinalError(retry.args))
    /\ retry.status = "thrown" => (retry.thrown = FinalError(retry.args) \/ retry.thrown = attempts[Len(attempts)])
    /\ retry.status = "returned" => attempts[Len(attempts)].ok

\* C5: for any sequence of outcomes the wrapped operation is invoked at most
\* 3 times and the invocation terminates, by returning or by throwing; when
\* all 3 attempts fail with retryable errors it throws the retries-exhausted
\* error.
C5_AtMostThreeAttemptsThenStops ==
    /\ []RetryAttemptBound
    /\ <>(retry.status \in {"returned", "thrown"})

C5_Witness ==
    /\ retry.calls = 3
    /\ AllTransient(attempts)
    /\ retry.status = "thrown"
    /\ retry.thrown = FinalError(retry.args)

\* C6: an attempt that fails with an error that is neither a rate limit, a
\* server error nor a connection timeout/abort ends the invocation: it is the
\* last attempt, no delay is slept after it, and that same error is thrown.
C6_NonRetryableFailsImmediately ==
    \A k \in 1 .. Len(attempts) :
        IsNonRetryableError(attempts[k]) =>
            /\ k = Len(attempts)
            /\ retry.calls = k
            /\ Len(retry.delays) = k - 1
            /\ retry.status = "thrown"
            /\ retry.thrown = attempts[k]

C6_Witness ==
    /\ Len(attempts) = 2
    /\ IsTransientError(attempts[1])
    /\ IsNonRetryableError(attempts[2])
    /\ retry.status = "thrown"

\* C7 as stated: after three consecutive Transient failures, in any mix and
\* with or without a wait hint, the delays slept are in non-decreasing order.
C7_DelaysNonDecreasing ==
    (Len(attempts) = 3 /\ AllTransient(attempts)) => NonDecreasing(retry.delays)

\* C7 amended: after three consecutive Transient failures none of which is a
\* rate-limit response carrying a non-zero wait hint, three delays have been
\* slept and they are in non-decreasing order.
C7_DelaysNonDecreasingWithoutHint ==
    ( /\ Len(attempts) = 3
      /\ AllTransient(attempts)
      /\ \A k \in 1 .. 3 : ~CarriesWaitHint(attempts[k]) )
    => (Len(retry.delays) = 3 /\ NonDecreasing(retry.delays))

C7_Witness ==
    /\ Len(attempts) = 3
    /\ attempts[1].status = 429 /\ attempts[1].hint = 0
    /\ attempts[2].status = 503
    /\ attempts[3].code = "ETIMEDOUT"
    /\ retry.delays = <<2000, 4000, 8000>>

\* The invocation has thrown the error of lines 41-43.
RetriesExhausted == retry.status = "thrown" /\ retry.thrown.code = "RETRIES_EXHAUSTED"

\* C19: when the 3 attempts are exhausted, the retries-exhausted error that is
\* thrown carries, as its originalError, the last error raised by the wrapped
\* operation.
C19_ExhaustedCarriesLastError ==
    RetriesExhausted => retry.thrown.originalError = retry.lastError

\* C27: every delay slept is followed by another attempt of the operation:
\* once the invocation has returned or thrown, fewer delays have been slept
\* than attempts were made, and none after the third failed attempt.
C27_NoDelayAfterFinalAttempt ==
    retry.status \in {"returned", "thrown"} => Len(retry.delays) < retry.calls

\* C20: the delay slept after a rate-limit (429) failure that carries a wait
\* hint of h seconds, for every h >= 0, is exactly h seconds (h * 1000 ms);
\* after a rate-limit failure without a hint it is 2000 * 2^attempt ms.
C20_HintIsTheDelay ==
    \A k \in 1 .. Len(retry.delays) :
        IsRateLimit(attempts[k]) =>
            /\ attempts[k].hint >= 0 => retry.delays[k] = attempts[k].hint * 1000
            /\ attempts[k].hint = Absent => retry.delays[k] = 2000 * Pow2(k - 1)

(***************************************************************************)
(* The catalog (Rick and Morty API) and the mappers                        *)
(***************************************************************************)
\* info.count of the catalog: the characters are 1 .. TotalCharacters.
TotalCharacters == 2

\* line 102: the cap on the character ids
MAX_CHARACTER_ID == 826

Min(a, b) == IF a <= b THEN a ELSE b

CharacterIds == 1 .. Min(MAX_CHARACTER_ID, TotalCharacters)

\* character.origin.url is the empty string for a character of unknown origin.
NoUrl == ""
Urls == {"location/1", "location/20"}
LocationNames == {"Earth", "Abadango"}

\* The catalogs of the model: character 1 comes from location/1, every other
\* character from either location or from nowhere; location/1 is Earth and
\* location/20 bears the same name or another.
Origins == { f \in [CharacterIds -> Urls \cup {NoUrl}] : f[1] = "location/1" }
LocNames == { f \in [Urls -> LocationNames] : f["location/1"] = "Earth" }

\* The display names of the characters, as sequences of characters.
Names ==
    << <<"R", "i", "c", "k", " ", "S">>,
       <<"M", "o", "r", "t", "y">>,
       <<"S", "u", "m", "m", "e", "r", " ", "S">> >>

CharacterName(id) == Names[((id - 1) % Len(Names)) + 1]

UpperCase == <<"A", "B", "C", "D", "E", "F", "G", "H", "I", "J", "K", "L", "M",
               "N", "O", "P", "Q", "R", "S", "T", "U", "V", "W", "X", "Y", "Z">>
LowerCase == <<"a", "b", "c", "d", "e", "f", "g", "h", "i", "j", "k", "l", "m",
               "n", "o", "p", "q", "r", "s", "t", "u", "v", "w", "x", "y", "z">>

\* String.prototype.toLowerCase, character by character
ToLowerChar(c) ==
    IF \E n \in 1 .. Len(UpperCase) : UpperCase[n] = c
    THEN LowerCase[CHOOSE n \in 1 .. Len(UpperCase) : UpperCase[n] = c]
    ELSE c

ToLowerCase(str) == [n \in 1 .. Len(str) |-> ToLowerChar(str[n])]

\* The characters the regular expression \s matches
IsWhitespace(c) == c \in {" ", "\t", "\n"}

\* str.replace(/\s/g, '')
RECURSIVE StripWhitespace(_)
StripWhitespace(str) ==
    IF str = <<>> THEN <<>>
    ELSE IF IsWhitespace(Head(str)) THEN StripWhitespace(Tail(str))
    ELSE <<Head(str)>> \o StripWhitespace(Tail(str))

DigitChars == <<"0", "1", "2", "3", "4", "5", "6", "7", "8", "9">>

\* Number.prototype.toString for a non-negative integer
RECURSIVE NumberToString(_)
NumberToString(n) ==
    IF n < 10 THEN <<DigitChars[n + 1]>>
    ELSE NumberToString(n \div 10) \o <<DigitChars[(n % 10) + 1]>>

\* "rickandmorty.com"
EmailDomain ==
    <<"r", "i", "c", "k", "a", "n", "d", "m", "o", "r", "t", "y", ".", "c", "o", "m">>

\* lines 51-66: the contact properties of a character (email and
\* character_id; the other properties are copied and play no part in a search)
ContactProperties(name, id) ==
    [email |-> StripWhitespace(ToLowerCase(name)) \o <<"_">>
                 \o NumberToString(id) \o <<"@">> \o EmailDomain,
     character_id |-> NumberToString(id)]
CharacterToContactMapping(id) == ContactProperties(CharacterName(id), id)

\* lines 73-83: the company properties of a location (its name)
LocationToCompanyMapping(url) == [name |-> locName[url]]

RECURSIVE PrimeLoopOneDivisor(_, _)
PrimeLoopOneDivisor(num, i) ==
    IF i * i > num THEN TRUE
    ELSE IF num % i = 0 THEN FALSE
    ELSE PrimeLoopOneDivisor(num, i + 6)

\* utils/math.js isPrime: the trial division by 6k-1 and 6k+1
RECURSIVE PrimeLoop(_, _)
PrimeLoop(num, i) ==
    IF i * i > num THEN TRUE
    ELSE IF num % i = 0 \/ num % (i + 2) = 0 THEN FALSE
    ELSE PrimeLoop(num, i + 6)

IsPrime(num) ==
    IF num <= 1 THEN FALSE
    ELSE IF num <= 3 THEN TRUE
    ELSE IF num % 2 = 0 \/ num % 3 = 0 THEN FALSE
    ELSE PrimeLoop(num, 5)

\* line 103
IsSelected(i) == i = 1 \/ IsPrime(i)

(***************************************************************************)
(* The destination account                                                 *)
(***************************************************************************)
\* A missing identity: null, undefined or a Map lookup that finds nothing.
NoId == 0

SeedCompany == [id |-> 1, name |-> "Earth"]
SeedContact == [id |-> 2] @@ CharacterToContactMapping(1)
FirstFreeId == 3

\* The destination the migration starts from holds at most one record per
\* key: it is empty, or it holds the company Earth and the contact of character 1.
InitialHubs ==
    { [companies |-> {}, contacts |-> {}, assocs |-> {}, nextId |-> FirstFreeId],
      [companies |-> {SeedCompany}, contacts |-> {SeedContact}, assocs |-> {},
       nextId |-> FirstFreeId] }

\* searchApi.doSearch with one EQ filter and limit 1: the records that match
CompaniesNamed(name) == { c \in hub.companies : c.name = name }
ContactsWithEmail(email) == { c \in hub.contacts : c.email = email }
ContactsWithCharacterId(cid) == { c \in hub.contacts : c.character_id = cid }

\* basicApi.create: the destination assigns the next identifier
CreateCompany(h, props) ==
    [h EXCEPT !.companies = @ \cup {[id |-> h.nextId] @@ props},
              !.nextId = @ + 1]
CreateContact(h, props) ==
    [h EXCEPT !.contacts = @ \cup {[id |-> h.nextId] @@ props},
              !.nextId = @ + 1]

\* basicApi.update: the record keeps its identifier and takes the properties
UpdateCompany(h, id, props) ==
    [h EXCEPT !.companies =
        { IF c.id = id THEN [id |-> id] @@ props ELSE c : c \in @ }]
UpdateContact(h, id, props) ==
    [h EXCEPT !.contacts =
        { IF c.id = id THEN [id |-> id] @@ props ELSE c : c \in @ }]

\* associations.v4 create is a PUT: the pair is associated afterwards, once.
CreateAssociation(h, contactId, companyId) ==
    [h EXCEPT !.assocs = @ \cup {<<contactId, companyId>>}]

(***************************************************************************)
(* migrateRickAndMortyToHubspot (hubspotMigrationService.js:90-309)        *)
(***************************************************************************)
\* What the wrapped operation does on the successive attempts of one call.
CallOutcomes == {Ok, ApiError(503, "none", Absent), ApiError(400, "none", Absent)}
\* The wrapped operation is not called again after a response or after an error
\* that is not retried, so what it would do then is left as Ok.
AttemptSeqs ==
    { outs \in [1 .. MAX_HUBSPOT_RETRIES -> CallOutcomes] :
        \A n \in 1 .. MAX_HUBSPOT_RETRIES - 1 :
            outs[n] # ApiError(503, "none", Absent) => outs[n + 1] = Ok }

\* The number of remote calls (catalog fetches and wrapped destination calls)
\* that fail in one behaviour.
MaxFaults == 1

\* Whether makeHubspotApiCallWithRetry returns a response on these outcomes.
Returns(outs) == MakeHubspotApiCallWithRetry(outs).status = "returned"

\* A remote call: what it is, on what, whether it succeeded, whether what it
\* writes was in the destination already, and the pair an association call names.
NoPair == <<NoId, NoId>>
NoCall == [op |-> "none", kind |-> "none", ok |-> TRUE, present |-> FALSE, pair |-> NoPair]
Skipped == [NoCall EXCEPT !.kind = "association skipped"]
Op(op, kind, ok, present) ==
    [op |-> op, kind |-> kind, ok |-> ok, present |-> present, pair |-> NoPair]
AssociateOp(ok, pair) ==
    [op |-> "associate", kind |-> "association", ok |-> ok,
     present |-> pair \in hub.assocs, pair |-> pair]

MigInit ==
    [pc |-> "Idle", i |-> 1, k |-> 1, found |-> NoId,
     charactersToMigrate |-> <<>>,
     uniqueLocationUrls |-> <<>>,
     companyLocationMap |-> [u \in Urls |-> NoId],
     createdOrUpdatedContacts |-> <<>>]

InSeq(x, sq) == \E n \in 1 .. Len(sq) : sq[n] = x

\* line 122: [...new Set(characters.map(c => c.origin?.url).filter(Boolean))]
RECURSIVE UniqueLocationUrls(_, _)
UniqueLocationUrls(chars, acc) ==
    IF chars = <<>> THEN acc
    ELSE LET url == origin[Head(chars)]
         IN  UniqueLocationUrls(Tail(chars),
                 IF url = NoUrl \/ InSeq(url, acc) THEN acc ELSE Append(acc, url))

\* lines 253-296: the loop over createdOrUpdatedContacts
AdvanceAssociations(m) ==
    IF m.k <= Len(m.createdOrUpdatedContacts)
    THEN [m EXCEPT !.pc = "Associate"]
    ELSE [m EXCEPT !.pc = "Done"]

\* lines 189-249: the loop over charactersToMigrate
AdvanceContacts(m) ==
    IF m.k <= Len(m.charactersToMigrate)
    THEN [m EXCEPT !.pc = "SearchContact"]
    ELSE AdvanceAssociations([m EXCEPT !.k = 1])

\* lines 124-185: the loop over uniqueLocationUrls
AdvanceCompanies(m) ==
    IF m.k <= Len(m.uniqueLocationUrls)
    THEN [m EXCEPT !.pc = "GetLocation"]
    ELSE AdvanceContacts([m EXCEPT !.k = 1])

\* lines 102-113: the loop over the character ids; after it, lines 115-122
AdvanceCollect(m) ==
    IF m.i <= Min(MAX_CHARACTER_ID, TotalCharacters)
    THEN [m EXCEPT !.pc = "Collect"]
    ELSE AdvanceCompanies(
            [m EXCEPT !.k = 1,
                      !.uniqueLocationUrls = UniqueLocationUrls(m.charactersToMigrate, <<>>)])

NextCompany(m) == AdvanceCompanies([m EXCEPT !.k = @ + 1, !.found = NoId])
SkipRemainingContacts(m) == AdvanceAssociations([m EXCEPT !.k = 1, !.found = NoId])
NextContact(m) == AdvanceContacts([m EXCEPT !.k = @ + 1, !.found = NoId])
NextAssociation(m) == AdvanceAssociations([m EXCEPT !.k = @ + 1])

\* line 179: companyLocationMap.set(locationUrl, companyRecord.id)
CompanyResolved(m, id) ==
    NextCompany([m EXCEPT !.companyLocationMap[m.uniqueLocationUrls[m.k]] = id])

\* line 240: createdOrUpdatedContacts.push(hubspotContact)
ContactResolved(m, id, props) ==
    NextContact([m EXCEPT !.createdOrUpdatedContacts =
                    Append(@, [id |-> id, character_id |-> props.character_id])])

Running == mig.pc \notin {"Idle", "Done", "Failed", "Interrupted"}

\* Whether one more remote call may fail, and the history after a call: the
\* failures are counted when their number is limited.
MayBe(ok) == ok \/ hist.anyFaults \/ hist.faults < MaxFaults
Faulted(ok) == [hist EXCEPT !.faults = IF ok \/ hist.anyFaults THEN @ ELSE @ + 1]

Init ==
    /\ retry = RetryInit
    /\ attempts = <<>>
    /\ origin \in Origins
    /\ locName \in LocNames
    /\ hub \in InitialHubs
    /\ mig = MigInit
    /\ run = "first"
    /\ lastOp = NoCall
    /\ hist = [faults |-> 0, interrupted |-> FALSE, anyFaults |-> FALSE, rerun |-> TRUE,
               searched |-> <<>>, companySearched |-> <<>>, associated |-> <<>>,
               seed |-> hub, firstDone |-> FALSE, afterFirst |-> hub]

Catalog == <<origin, locName>>
RetryVars == <<retry, attempts>>

NewRunKeepingCache(m) ==
    [MigInit EXCEPT !.pc = "GetInfo", !.companyLocationMap = m.companyLocationMap]

\* lines 117-118: each call makes its own createdOrUpdatedContacts and
\* companyLocationMap
NewRun(m) == [MigInit EXCEPT !.pc = "GetInfo"]

\* The entry point is called: POST /migrate, a first time or again.
StartMigration ==
    /\ \/ /\ mig.pc = "Idle"
          /\ UNCHANGED <<run, hist>>
       \/ /\ mig.pc \in {"Done", "Failed", "Interrupted"}
          /\ run = "first" /\ hist.rerun
          /\ run' = "second"
          /\ hist' = [hist EXCEPT !.firstDone = (mig.pc = "Done"), !.afterFirst = hub,
                                   !.searched = <<>>, !.companySearched = <<>>,
                                   !.associated = <<>>]
    /\ mig' = NewRun(mig)
    /\ lastOp' = NoCall
    /\ UNCHANGED <<RetryVars, Catalog, hub>>

\* line 97: getCharactersInfo(); its failure is rethrown at line 307
GetCharactersInfo ==
    /\ mig.pc = "GetInfo"
    /\ \E ok \in BOOLEAN :
        /\ MayBe(ok)
        /\ mig' = IF ok THEN AdvanceCollect([mig EXCEPT !.i = 1])
                        ELSE [mig EXCEPT !.pc = "Failed"]
        /\ lastOp' = Op("fetch", "info", ok, FALSE)
        /\ hist' = Faulted(ok)
    /\ UNCHANGED <<RetryVars, Catalog, hub, run>>

\* lines 103-112: one pass of the collection loop
CollectCharacter ==
    /\ mig.pc = "Collect"
    /\ \/ /\ IsSelected(mig.i)
          /\ \E ok \in BOOLEAN :
              /\ MayBe(ok)
              /\ mig' = AdvanceCollect(
                    [mig EXCEPT !.i = @ + 1,
                                !.charactersToMigrate =
                                    IF ok THEN Append(@, mig.i) ELSE @])
              /\ lastOp' = Op("fetch", "character", ok, FALSE)
              /\ hist' = Faulted(ok)
       \/ /\ ~IsSelected(mig.i)
          /\ mig' = AdvanceCollect([mig EXCEPT !.i = @ + 1])
          /\ lastOp' = NoCall
          /\ UNCHANGED hist
    /\ UNCHANGED <<RetryVars, Catalog, hub, run>>

\* The location and the company properties of the pass of phase 1 under way.
CurrentUrl == mig.uniqueLocationUrls[mig.k]
CompanyObj == LocationToCompanyMapping(CurrentUrl)
CompanyPresent == CompaniesNamed(CompanyObj.name) # {}

\* line 128: getLocationByUrl; its failure is caught at line 181
GetLocation ==
    /\ mig.pc = "GetLocation"
    /\ \E ok \in BOOLEAN :
        /\ MayBe(ok)
        /\ mig' = IF ok THEN [mig EXCEPT !.pc = "SearchCompany"] ELSE NextCompany(mig)
        /\ lastOp' = Op("fetch", "location", ok, FALSE)
        /\ hist' = Faulted(ok)
    /\ UNCHANGED <<RetryVars, Catalog, hub, run>>

AlwaysCreateCompany(results) == "CreateCompany"

\* line 151: if (searchResponse.results.length > 0)
CompanySearchBranch(results) ==
    IF results # {} THEN "UpdateCompany" ELSE "CreateCompany"

\* lines 135-151 and 169-171: the search by name, limit 1
SearchCompany ==
    /\ mig.pc = "SearchCompany"
    /\ \E outs \in AttemptSeqs :
        LET ok == Returns(outs) IN
        /\ MayBe(ok)
        /\ \/ /\ ok /\ CompanyPresent
              /\ \E c \in CompaniesNamed(CompanyObj.name) :
                    mig' = [mig EXCEPT !.pc = CompanySearchBranch({c}), !.found = c.id]
           \/ /\ ok /\ ~CompanyPresent
              /\ mig' = [mig EXCEPT !.pc = CompanySearchBranch({})]
           \/ /\ ~ok
              /\ mig' = [mig EXCEPT !.pc = "CreateCompanyAfterError"]
        /\ lastOp' = Op("search", "company", ok, CompanyPresent)
        /\ hist' = [Faulted(ok) EXCEPT !.companySearched = Append(@, CurrentUrl)]
    /\ UNCHANGED <<RetryVars, Catalog, hub, run>>

CompanyErrorRethrown(m) == [m EXCEPT !.pc = "Failed"]

CompanyCachedOnFailure(m) == CompanyResolved(m, m.found)

\* The catch at line 169 encloses the update and the create of lines 155-167
\* as well as the search: their failure leads to the create of line 172.
CompanyWriteFailed(m) == [m EXCEPT !.pc = "CreateCompanyAfterError"]

\* lines 155-160
UpdateCompanyRecord ==
    /\ mig.pc = "UpdateCompany"
    /\ \E outs \in AttemptSeqs :
        LET ok == Returns(outs) IN
        /\ MayBe(ok)
        /\ hub' = IF ok THEN UpdateCompany(hub, mig.found, CompanyObj) ELSE hub
        /\ mig' = IF ok THEN CompanyResolved(mig, mig.found) ELSE CompanyWriteFailed(mig)
        /\ lastOp' = Op("update", "company", ok, CompanyPresent)
        /\ hist' = Faulted(ok)
    /\ UNCHANGED <<RetryVars, Catalog, run>>

\* lines 163-167
CreateCompanyRecord ==
    /\ mig.pc = "CreateCompany"
    /\ \E outs \in AttemptSeqs :
        LET ok == Returns(outs) IN
        /\ MayBe(ok)
        /\ hub' = IF ok THEN CreateCompany(hub, CompanyObj) ELSE hub
        /\ mig' = IF ok THEN CompanyResolved(mig, hub.nextId) ELSE CompanyWriteFailed(mig)
        /\ lastOp' = Op("create", "company", ok, CompanyPresent)
        /\ hist' = Faulted(ok)
    /\ UNCHANGED <<RetryVars, Catalog, run>>

\* lines 172-176; a failure is caught at line 181
CreateCompanyAfterError ==
    /\ mig.pc = "CreateCompanyAfterError"
    /\ \E outs \in AttemptSeqs :
        LET ok == Returns(outs) IN
        /\ MayBe(ok)
        /\ hub' = IF ok THEN CreateCompany(hub, CompanyObj) ELSE hub
        /\ mig' = IF ok THEN CompanyResolved(mig, hub.nextId) ELSE NextCompany(mig)
        /\ lastOp' = Op("create", "company", ok, CompanyPresent)
        /\ hist' = Faulted(ok)
    /\ UNCHANGED <<RetryVars, Catalog, run>>

\* The character and the contact properties of the pass of phase 2 under way.
CurrentCharacter == mig.charactersToMigrate[mig.k]
ContactObj == CharacterToContactMapping(CurrentCharacter)
ContactPresent == ContactsWithCharacterId(ContactObj.character_id) # {}

AlwaysCreateContact(results) == "CreateContact"

\* line 213: if (existingContacts.results.length > 0)
ContactSearchBranch(results) ==
    IF results # {} THEN "UpdateContact" ELSE "CreateContact"

\* lines 197-213 and 230-232: the search by email, limit 1
SearchContact ==
    /\ mig.pc = "SearchContact"
    /\ \E outs \in AttemptSeqs :
        LET ok == Returns(outs)
            existingContacts == ContactsWithEmail(ContactObj.email) IN
        /\ MayBe(ok)
        /\ \/ /\ ok /\ existingContacts # {}
              /\ \E c \in existingContacts :
                    mig' = [mig EXCEPT !.pc = ContactSearchBranch({c}), !.found = c.id]
           \/ /\ ok /\ existingContacts = {}
              /\ mig' = [mig EXCEPT !.pc = ContactSearchBranch({})]
           \/ /\ ~ok
              /\ mig' = [mig EXCEPT !.pc = "CreateContactAfterError"]
        /\ lastOp' = Op("search", "contact", ok, ContactPresent)
        /\ hist' = [Faulted(ok) EXCEPT !.searched = Append(@, CurrentCharacter)]
    /\ UNCHANGED <<RetryVars, Catalog, hub, run>>

\* The catch at line 230 encloses the update and the create of lines 217-227
\* as well as the search: their failure leads to the create of line 233.
ContactErrorRethrown(m) == [m EXCEPT !.pc = "Failed"]

ContactWriteFailed(m) == [m EXCEPT !.pc = "CreateContactAfterError"]

\* lines 217-221
UpdateContactRecord ==
    /\ mig.pc = "UpdateContact"
    /\ \E outs \in AttemptSeqs :
        LET ok == Returns(outs) IN
        /\ MayBe(ok)
        /\ hub' = IF ok THEN UpdateContact(hub, mig.found, ContactObj) ELSE hub
        /\ mig' = IF ok THEN ContactResolved(mig, mig.found, ContactObj)
                        ELSE ContactWriteFailed(mig)
        /\ lastOp' = Op("update", "contact", ok, ContactPresent)
        /\ hist' = Faulted(ok)
    /\ UNCHANGED <<RetryVars, Catalog, run>>

\* lines 224-228
CreateContactRecord ==
    /\ mig.pc = "CreateContact"
    /\ \E outs \in AttemptSeqs :
        LET ok == Returns(outs) IN
        /\ MayBe(ok)
        /\ hub' = IF ok THEN CreateContact(hub, ContactObj) ELSE hub
        /\ mig' = IF ok THEN ContactResolved(mig, hub.nextId, ContactObj)
                        ELSE ContactWriteFailed(mig)
        /\ lastOp' = Op("create", "contact", ok, ContactPresent)
        /\ hist' = Faulted(ok)
    /\ UNCHANGED <<RetryVars, Catalog, run>>

\* lines 233-237; a failure is caught at line 242
CreateContactAfterError ==
    /\ mig.pc = "CreateContactAfterError"
    /\ \E outs \in AttemptSeqs :
        LET ok == Returns(outs) IN
        /\ MayBe(ok)
        /\ hub' = IF ok THEN CreateContact(hub, ContactObj) ELSE hub
        /\ mig' = IF ok THEN ContactResolved(mig, hub.nextId, ContactObj)
                        ELSE NextContact(mig)
        /\ lastOp' = Op("create", "contact", ok, ContactPresent)
        /\ hist' = Faulted(ok)
    /\ UNCHANGED <<RetryVars, Catalog, run>>

\* The contact of the pass of phase 3 under way, and lines 256-264.
CurrentContact == mig.createdOrUpdatedContacts[mig.k]
CharactersOf(contact) ==
    { n \in 1 .. Len(mig.charactersToMigrate) :
        NumberToString(mig.charactersToMigrate[n]) = contact.character_id }
\* charactersToMigrate.find: the first character with the contact's character_id
HasCharacter(contact) == CharactersOf(contact) # {}
CharacterOf(contact) ==
    mig.charactersToMigrate[CHOOSE n \in CharactersOf(contact) :
                                \A other \in CharactersOf(contact) : n <= other]
CompanyIdFor(character) ==
    IF origin[character] # NoUrl THEN mig.companyLocationMap[origin[character]] ELSE NoId

AssociateAnyContact(contactId, companyId) == contactId # NoId

\* line 266: if (contact && contact.id && companyId)
ShouldAssociate(contactId, companyId) == contactId # NoId /\ companyId # NoId

AbortRun(m) == [m EXCEPT !.pc = "Failed"]

\* lines 279-287: the error of the association call is logged
AssociationFailed(m) == NextAssociation(m)

\* lines 253-296: one pass of the association loop
Associate ==
    /\ mig.pc = "Associate"
    /\ \/ /\ ~HasCharacter(CurrentContact)
          /\ mig' = NextAssociation(mig)
          /\ lastOp' = NoCall
          /\ UNCHANGED <<hub, hist>>
       \/ /\ HasCharacter(CurrentContact)
          /\ LET companyId == CompanyIdFor(CharacterOf(CurrentContact))
                 pair == <<CurrentContact.id, companyId>> IN
             \/ /\ ShouldAssociate(CurrentContact.id, companyId)
                /\ \E outs \in AttemptSeqs :
                    LET ok == Returns(outs) IN
                    /\ MayBe(ok)
                    /\ hub' = IF ok THEN CreateAssociation(hub, pair[1], pair[2]) ELSE hub
                    /\ mig' = IF ok THEN NextAssociation(mig) ELSE AssociationFailed(mig)
                    /\ lastOp' = AssociateOp(ok, pair)
                    /\ hist' = [Faulted(ok) EXCEPT !.associated = Append(@, pair)]
             \/ /\ ~ShouldAssociate(CurrentContact.id, companyId)
                /\ mig' = NextAssociation(mig)
                /\ lastOp' = Skipped
                /\ UNCHANGED <<hub, hist>>
    /\ UNCHANGED <<RetryVars, Catalog, run>>

\* The process stops in the middle of the first run: what the run held in
\* memory is lost, what it wrote to the destination stays.
Interrupt ==
    /\ Running
    /\ run = "first"
    /\ mig' = [MigInit EXCEPT !.pc = "Interrupted"]
    /\ lastOp' = NoCall
    /\ hist' = [hist EXCEPT !.interrupted = TRUE]
    /\ UNCHANGED <<RetryVars, Catalog, hub, run>>

Next ==
    \/ StartMigration
    \/ GetCharactersInfo
    \/ CollectCharacter
    \/ GetLocation
    \/ SearchCompany
    \/ UpdateCompanyRecord
    \/ CreateCompanyRecord
    \/ CreateCompanyAfterError
    \/ SearchContact
    \/ UpdateContactRecord
    \/ CreateContactRecord
    \/ CreateContactAfterError
    \/ Associate
    \/ Interrupt

Spec == Init /\ [][Next]_vars

\* One run that nothing interrupts, in which any number of remote calls may
\* fail and every remote call returns.
InitOneRun ==
    /\ retry = RetryInit
    /\ attempts = <<>>
    /\ origin \in Origins
    /\ locName \in LocNames
    /\ hub \in InitialHubs
    /\ mig = MigInit
    /\ run = "first"
    /\ lastOp = NoCall
    /\ hist = [faults |-> 0, interrupted |-> FALSE, anyFaults |-> TRUE, rerun |-> FALSE,
               searched |-> <<>>, companySearched |-> <<>>, associated |-> <<>>,
               seed |-> hub, firstDone |-> FALSE, afterFirst |-> hub]

NextOneRun ==
    \/ StartMigration
    \/ GetCharactersInfo
    \/ CollectCharacter
    \/ GetLocation
    \/ SearchCompany
    \/ UpdateCompanyRecord
    \/ CreateCompanyRecord
    \/ CreateCompanyAfterError
    \/ SearchContact
    \/ UpdateContactRecord
    \/ CreateContactRecord
    \/ CreateContactAfterError
    \/ Associate

SpecOneRun == InitOneRun /\ [][NextOneRun]_vars
SpecOneRunLive == SpecOneRun /\ WF_vars(NextOneRun)

\* A destination that holds the contact of character 1 under a former display
\* name of the character, hence with another derived email, and possibly the
\* contact of character 2 under its present name.
FormerName == <<"R", "i", "c", "k">>
RenamedContact == [id |-> 2] @@ ContactProperties(FormerName, 1)
RenamedHubs ==
    { [companies |-> {SeedCompany}, contacts |-> {RenamedContact} \cup others,
       assocs |-> {}, nextId |-> FirstFreeId + 1] :
        others \in {{}, {[id |-> FirstFreeId] @@ CharacterToContactMapping(2)}} }

InitRenamed ==
    /\ retry = RetryInit
    /\ attempts = <<>>
    /\ origin \in Origins
    /\ locName \in LocNames
    /\ hub \in RenamedHubs
    /\ mig = MigInit
    /\ run = "first"
    /\ lastOp = NoCall
    /\ hist = [faults |-> 0, interrupted |-> FALSE, anyFaults |-> TRUE, rerun |-> FALSE,
               searched |-> <<>>, companySearched |-> <<>>, associated |-> <<>>,
               seed |-> hub, firstDone |-> FALSE, afterFirst |-> hub]

SpecRenamed == InitRenamed /\ [][NextOneRun]_vars

\* A destination that holds two companies with the name Earth, and possibly
\* the contact of character 1.
DuplicateCompany == [id |-> FirstFreeId, name |-> "Earth"]
DuplicateHubs ==
    { [companies |-> {SeedCompany, DuplicateCompany}, contacts |-> contacts,
       assocs |-> {}, nextId |-> FirstFreeId + 1] :
        contacts \in {{}, {SeedContact}} }

InitDuplicates ==
    /\ retry = RetryInit
    /\ attempts = <<>>
    /\ origin \in Origins
    /\ locName \in LocNames
    /\ hub \in DuplicateHubs
    /\ mig = MigInit
    /\ run = "first"
    /\ lastOp = NoCall
    /\ hist = [faults |-> 0, interrupted |-> FALSE, anyFaults |-> TRUE, rerun |-> FALSE,
               searched |-> <<>>, companySearched |-> <<>>, associated |-> <<>>,
               seed |-> hub, firstDone |-> FALSE, afterFirst |-> hub]

SpecDuplicates == InitDuplicates /\ [][NextOneRun]_vars

(***************************************************************************)
(* Properties of the migration                                             *)
(***************************************************************************)
\* C1: for a record whose natural key (the company name, the contact's
\* character_id) is already present in the destination, resolve never issues
\* a create, whatever the outcome of the search and of the update.
C1_NeverCreatesWhenKeyPresent ==
    lastOp.op = "create" => ~lastOp.present

OnePerKey(h) ==
    /\ \A a, b \in h.companies : a.name = b.name => a = b
    /\ \A a, b \in h.contacts : a.character_id = b.character_id => a = b

\* C2: when a run started on a destination with at most one record per key
\* has completed, at most one company carries each name and at most one
\* contact each character_id, whatever remote calls failed during the run.
C2_AtMostOneRecordPerKey ==
    mig.pc = "Done" => OnePerKey(hub)

\* C3: a second run that follows a completed first run of the same catalog,
\* no remote call having failed, creates no record: the destination holds as
\* many companies and contacts after it as after the first run.
C3_SecondRunCreatesNothing ==
    (run = "second" /\ hist.firstDone /\ hist.faults = 0) =>
        /\ lastOp.op # "create"
        /\ hub.nextId = hist.afterFirst.nextId
        /\ Cardinality(hub.companies) = Cardinality(hist.afterFirst.companies)
        /\ Cardinality(hub.contacts) = Cardinality(hist.afterFirst.contacts)

C3_Witness ==
    /\ run = "second" /\ hist.firstDone /\ hist.faults = 0
    /\ mig.pc = "Done"
    /\ hist.seed.companies = {} /\ hist.seed.contacts = {}
    /\ Cardinality(hub.contacts) = Cardinality(CharacterIds)
    /\ Cardinality(hub.companies) = 2

\* What one uninterrupted run without a failing call leaves in the destination.
SelectedCharacters == { i \in CharacterIds : IsSelected(i) }
ExpectedCompanyNames ==
    { c.name : c \in hist.seed.companies }
        \cup { locName[origin[i]] : i \in { j \in SelectedCharacters : origin[j] # NoUrl } }
ExpectedContacts == { CharacterToContactMapping(i) : i \in SelectedCharacters }
ExpectedLinks ==
    { <<NumberToString(i), locName[origin[i]]>> :
        i \in { j \in SelectedCharacters : origin[j] # NoUrl } }
ContactById(id) == CHOOSE c \in hub.contacts : c.id = id
CompanyById(id) == CHOOSE c \in hub.companies : c.id = id

DestinationAsExpected ==
    /\ OnePerKey(hub)
    /\ { c.name : c \in hub.companies } = ExpectedCompanyNames
    /\ { [email |-> c.email, character_id |-> c.character_id] : c \in hub.contacts }
          = ExpectedContacts
    /\ { <<ContactById(a[1]).character_id, CompanyById(a[2]).name>> : a \in hub.assocs }
          = ExpectedLinks
    /\ Cardinality(hub.assocs) = Cardinality(ExpectedLinks)

\* C4: with no failing remote call, a run that completes leaves the records
\* and associations of one uninterrupted run, also when it is the re-run
\* that follows a first run interrupted at any point: one record per key and
\* one association per character with an origin.
C4_RerunAfterInterruptionConverges ==
    (mig.pc = "Done" /\ hist.faults = 0) => DestinationAsExpected

\* The first run was interrupted after it had written to the destination.
C4_Witness ==
    /\ mig.pc = "Done" /\ hist.faults = 0
    /\ run = "second" /\ hist.interrupted
    /\ hist.afterFirst.contacts # hist.seed.contacts
    /\ hist.afterFirst.assocs = {}
    /\ Cardinality(hub.assocs) = 2

\* C11: the run enters Failed only from the initial fetch of the catalog
\* information, when that fetch fails; no later step (character or location
\* fetch, search, create, update, associate) takes the run to Failed.
C11_FailedOnlyOnInitialFetch ==
    [][(mig'.pc = "Failed" /\ mig.pc # "Failed")
          => (mig.pc = "GetInfo" /\ lastOp'.kind = "info" /\ ~lastOp'.ok)]_vars

\* The initial fetch failed and the run is in Failed.
C11_Witness ==
    /\ mig.pc = "Failed"
    /\ lastOp = Op("fetch", "info", FALSE, FALSE)
    /\ hub = hist.seed

\* Once its initial fetch has succeeded, the run of
\* migrateRickAndMortyToHubspot reaches Done, whatever remote calls fail
\* afterwards, every remote call returning.
MigrationReachesDone ==
    (lastOp.kind = "info" /\ lastOp.ok) ~> (mig.pc = "Done")

\* Done although nothing was written: two characters were fetched, every
\* company and every contact failed.
MigrationReachesDoneWithoutRecords ==
    /\ mig.pc = "Done"
    /\ Len(mig.charactersToMigrate) >= 2
    /\ mig.createdOrUpdatedContacts = <<>>
    /\ \A u \in Urls : mig.companyLocationMap[u] = NoId
    /\ hub = hist.seed

\* The positions of the run in phase 2.
ContactPhase ==
    {"SearchContact", "UpdateContact", "CreateContact", "CreateContactAfterError"}

\* C18: every character to migrate is resolved once in phase 2, in order,
\* whatever the outcome of the characters before it: when phase 2 is over the
\* contact search has been made once for each; a failed call of phase 2
\* leaves the run in phase 2 or takes it to phase 3, at the same character
\* or at the next one.
C18_EveryContactResolvedOnce ==
    /\ [](mig.pc \in {"Associate", "Done"} => hist.searched = mig.charactersToMigrate)
    /\ [](mig.pc \in ContactPhase =>
            hist.searched = SubSeq(mig.charactersToMigrate, 1,
                                   IF mig.pc = "SearchContact" THEN mig.k - 1 ELSE mig.k))
    /\ [][(mig.pc \in ContactPhase /\ ~lastOp'.ok)
            => /\ mig'.pc \in ContactPhase \cup {"Associate", "Done"}
               /\ mig'.k \in {mig.k, mig.k + 1, 1}]_vars

\* The first character failed (its search and its create), the second one
\* was resolved.
C18_Witness ==
    /\ mig.pc = "Done"
    /\ mig.charactersToMigrate = <<1, 2>>
    /\ hist.searched = <<1, 2>>
    /\ Len(mig.createdOrUpdatedContacts) = 1
    /\ mig.createdOrUpdatedContacts[1].character_id = NumberToString(2)

\* C10: a failed association call never aborts the run: the loop goes on to
\* the next contact or, after the last one, to Done; from phase 3 the run
\* never reaches Failed.
C10_AssociationFailureNeverAborts ==
    /\ [][(mig.pc = "Associate" /\ lastOp'.op = "associate" /\ ~lastOp'.ok)
            => (mig'.pc \in {"Associate", "Done"} /\ mig'.k = mig.k + 1)]_vars
    /\ [][mig.pc = "Associate" => mig'.pc \in {"Associate", "Done", "Interrupted"}]_vars

C10_Witness ==
    /\ lastOp.op = "associate" /\ ~lastOp.ok
    /\ mig.pc = "Associate"
    /\ mig.k = 2

(***************************************************************************)
(* The per-character migration (unnamed/part_001)                          *)
(***************************************************************************)
IsLetter(c) ==
    \/ \E n \in 1 .. Len(LowerCase) : LowerCase[n] = c
    \/ \E n \in 1 .. Len(UpperCase) : UpperCase[n] = c
IsDigit(c) == \E n \in 1 .. Len(DigitChars) : DigitChars[n] = c

\* line 18: /^[a-zA-Z0-9._%+-]+@[a-zA-Z0-9.-]+\.[a-zA-Z]{2,}$/
IsLocalChar(c) == IsLetter(c) \/ IsDigit(c) \/ c \in {".", "_", "%", "+", "-"}
IsDomainChar(c) == IsLetter(c) \/ IsDigit(c) \/ c \in {".", "-"}
IsValidEmail(email) ==
    \E at \in 1 .. Len(email), dot \in 1 .. Len(email) :
        /\ email[at] = "@" /\ email[dot] = "."
        /\ at > 1 /\ dot > at + 1 /\ Len(email) >= dot + 2
        /\ \A n \in 1 .. at - 1 : IsLocalChar(email[n])
        /\ \A n \in at + 1 .. dot - 1 : IsDomainChar(email[n])
        /\ \A n \in dot + 1 .. Len(email) : IsLetter(email[n])

KeepEveryCharacter(str) == str

\* line 31: str.replace(/[^a-z0-9]/g, '')
RECURSIVE KeepLowerAlnum(_)
KeepLowerAlnum(str) ==
    IF str = <<>> THEN <<>>
    ELSE IF (\E n \in 1 .. Len(LowerCase) : LowerCase[n] = Head(str)) \/ IsDigit(Head(str))
         THEN <<Head(str)>> \o KeepLowerAlnum(Tail(str))
         ELSE KeepLowerAlnum(Tail(str))

\* line 34: `${cleanName}${character.id}@rickandmorty.com`
PrimaryEmail(name, id) ==
    KeepLowerAlnum(ToLowerCase(name)) \o NumberToString(id) \o <<"@">> \o EmailDomain

\* line 38: `character${character.id}@rickandmorty.com`
FallbackEmail(id) ==
    <<"c", "h", "a", "r", "a", "c", "t", "e", "r">>
        \o NumberToString(id) \o <<"@">> \o EmailDomain

\* lines 27-55: characterToContactMapping of the per-character migration
ContactPropertiesAlnum(name, id) ==
    [email |-> IF IsValidEmail(PrimaryEmail(name, id))
               THEN PrimaryEmail(name, id) ELSE FallbackEmail(id),
     character_id |-> NumberToString(id)]
CharacterToContactMappingAlnum(id) == ContactPropertiesAlnum(CharacterName(id), id)

\* The number of characters on one page of the catalog.
PageSize == 1
TotalPages == (TotalCharacters + PageSize - 1) \div PageSize
RECURSIVE IdsFromTo(_, _)
IdsFromTo(a, b) == IF a > b THEN <<>> ELSE <<a>> \o IdsFromTo(a + 1, b)
PageResults(p) == IdsFromTo((p - 1) * PageSize + 1, Min(p * PageSize, TotalCharacters))

\* lines 223-236: primeIds.has(character.id) && character.id <= MAX_CHARACTER_ID
InPrimeIds(id) == id = 1 \/ (id \in 2 .. MAX_CHARACTER_ID /\ IsPrime(id))
RECURSIVE FilterCharacters(_)
FilterCharacters(chars) ==
    IF chars = <<>> THEN <<>>
    ELSE IF InPrimeIds(Head(chars)) /\ Head(chars) <= MAX_CHARACTER_ID
         THEN <<Head(chars)>> \o FilterCharacters(Tail(chars))
         ELSE FilterCharacters(Tail(chars))

PerCharacterSeedContact == [id |-> 2] @@ CharacterToContactMappingAlnum(1)
PerCharacterInitialHubs ==
    { [companies |-> {}, contacts |-> {}, assocs |-> {}, nextId |-> FirstFreeId],
      [companies |-> {SeedCompany}, contacts |-> {PerCharacterSeedContact}, assocs |-> {},
       nextId |-> FirstFreeId] }

\* lines 204-258: the locals of migrateRickAndMortyToHubspot
PerCharacterInit ==
    [pc |-> "Idle", page |-> 1, totalPages |-> 0, k |-> 1, found |-> NoId,
     allCharacters |-> <<>>,
     charactersToMigrate |-> <<>>,
     contactHubspotId |-> NoId,
     companyHubspotId |-> NoId,
     companyLocationMap |-> [u \in Urls |-> NoId],
     processedContactHubspotIds |-> {},
     processedCompanyHubspotIds |-> {},
     contactsCreated |-> 0, contactsUpdated |-> 0, contactsFailed |-> 0]

InitPerCharacter ==
    /\ retry = RetryInit
    /\ attempts = <<>>
    /\ origin \in Origins
    /\ locName \in LocNames
    /\ hub \in PerCharacterInitialHubs
    /\ mig = PerCharacterInit
    /\ run = "first"
    /\ lastOp = NoCall
    /\ hist = [faults |-> 0, interrupted |-> FALSE, anyFaults |-> FALSE, rerun |-> TRUE,
               searched |-> <<>>, companySearched |-> <<>>, associated |-> <<>>,
               seed |-> hub, firstDone |-> FALSE, afterFirst |-> hub]

\* lines 254-258: the head of the loop over charactersToMigrate
EnterCharacter(m) ==
    IF m.k <= Len(m.charactersToMigrate)
    THEN [m EXCEPT !.pc = "FindContact", !.found = NoId,
                   !.contactHubspotId = NoId, !.companyHubspotId = NoId]
    ELSE [m EXCEPT !.pc = "Done"]

EnterPageFilterAtOnce(m) ==
    EnterCharacter([m EXCEPT !.k = 1, !.charactersToMigrate = FilterCharacters(m.allCharacters)])

\* lines 215-237: the loop over the pages, then the filter
EnterPage(m) ==
    IF m.page <= m.totalPages
    THEN [m EXCEPT !.pc = "GetPage"]
    ELSE EnterCharacter(
            [m EXCEPT !.k = 1, !.charactersToMigrate = FilterCharacters(m.allCharacters)])

\* lines 276-295 up to the first remote call: the location of the character
ProcessCompany(m) ==
    LET locationUrl == origin[m.charactersToMigrate[m.k]] IN
    IF locationUrl = NoUrl THEN [m EXCEPT !.pc = "CreateAssociation"]
    ELSE IF m.companyLocationMap[locationUrl] # NoId
         THEN [m EXCEPT !.pc = "CreateAssociation",
                        !.companyHubspotId = m.companyLocationMap[locationUrl]]
         ELSE [m EXCEPT !.pc = "GetLocationByUrl"]

ContactFailureUncounted(m, id, created) ==
    ProcessCompany(
        IF id # NoId
        THEN [m EXCEPT !.processedContactHubspotIds = @ \cup {id},
                       !.contactsCreated = IF created THEN @ + 1 ELSE @,
                       !.contactsUpdated = IF created THEN @ ELSE @ + 1,
                       !.contactHubspotId = id]
        ELSE m)

\* lines 263-273: what the loop does with the result of findOrCreateContact
ContactResult(m, id, created) ==
    ProcessCompany(
        IF id # NoId
        THEN [m EXCEPT !.processedContactHubspotIds = @ \cup {id},
                       !.contactsCreated = IF created THEN @ + 1 ELSE @,
                       !.contactsUpdated = IF created THEN @ ELSE @ + 1,
                       !.contactHubspotId = id]
        ELSE [m EXCEPT !.contactsFailed = @ + 1])

\* lines 285-290: what the loop does with the result of findOrCreateCompany
CompanyResult(m, id) ==
    IF id # NoId
    THEN [m EXCEPT !.pc = "CreateAssociation",
                   !.companyHubspotId = id,
                   !.companyLocationMap[origin[m.charactersToMigrate[m.k]]] = id,
                   !.processedCompanyHubspotIds = @ \cup {id}]
    ELSE [m EXCEPT !.pc = "CreateAssociation"]

\* The entry point of the per-character migration is called, a first time or again.
StartPerCharacterMigration ==
    /\ \/ /\ mig.pc = "Idle"
          /\ UNCHANGED <<run, hist>>
       \/ /\ mig.pc \in {"Done", "Failed"}
          /\ run = "first" /\ hist.rerun
          /\ run' = "second"
          /\ hist' = [hist EXCEPT !.firstDone = (mig.pc = "Done"), !.afterFirst = hub,
                                   !.searched = <<>>, !.companySearched = <<>>,
                                   !.associated = <<>>]
    /\ mig' = [PerCharacterInit EXCEPT !.pc = "GetInfo"]
    /\ lastOp' = NoCall
    /\ UNCHANGED <<RetryVars, Catalog, hub>>

\* lines 211-212: getCharactersInfo(); its failure is rethrown at line 241
GetFirstCharactersInfo ==
    /\ mig.pc = "GetInfo"
    /\ \E ok \in BOOLEAN :
        /\ MayBe(ok)
        /\ mig' = IF ok THEN EnterPage([mig EXCEPT !.totalPages = TotalPages, !.page = 1])
                        ELSE [mig EXCEPT !.pc = "Failed"]
        /\ lastOp' = Op("fetch", "info", ok, FALSE)
        /\ hist' = Faulted(ok)
    /\ UNCHANGED <<RetryVars, Catalog, hub, run>>

\* lines 216-219: getCharactersInfo(i); its failure is rethrown at line 241
GetCharactersPage ==
    /\ mig.pc = "GetPage"
    /\ \E ok \in BOOLEAN :
        /\ MayBe(ok)
        /\ mig' = IF ok
                  THEN EnterPage([mig EXCEPT !.allCharacters = @ \o PageResults(mig.page),
                                             !.page = @ + 1])
                  ELSE [mig EXCEPT !.pc = "Failed"]
        /\ lastOp' = Op("fetch", "page", ok, FALSE)
        /\ hist' = Faulted(ok)
    /\ UNCHANGED <<RetryVars, Catalog, hub, run>>

\* The character and the contact properties of the pass under way.
PassCharacter == mig.charactersToMigrate[mig.k]
PassContactObj == CharacterToContactMappingAlnum(PassCharacter)
PassContactPresent == ContactsWithCharacterId(PassContactObj.character_id) # {}

\* lines 81-93 and 110-114: the search by character_id, limit 1
FindContact ==
    /\ mig.pc = "FindContact"
    /\ \E ok \in BOOLEAN :
        /\ MayBe(ok)
        /\ \/ /\ ok /\ PassContactPresent
              /\ \E c \in ContactsWithCharacterId(PassContactObj.character_id) :
                    mig' = [mig EXCEPT !.pc = "UpdateFoundContact", !.found = c.id]
           \/ /\ ok /\ ~PassContactPresent
              /\ mig' = [mig EXCEPT !.pc = "CreateNewContact"]
           \/ /\ ~ok
              /\ mig' = ContactResult(mig, NoId, FALSE)
        /\ lastOp' = Op("search", "contact", ok, PassContactPresent)
        /\ hist' = [Faulted(ok) EXCEPT !.searched = Append(@, PassCharacter)]
    /\ UNCHANGED <<RetryVars, Catalog, hub, run>>

\* lines 95-101 and 110-114
UpdateFoundContact ==
    /\ mig.pc = "UpdateFoundContact"
    /\ \E ok \in BOOLEAN :
        /\ MayBe(ok)
        /\ hub' = IF ok THEN UpdateContact(hub, mig.found, PassContactObj) ELSE hub
        /\ mig' = ContactResult(mig, IF ok THEN mig.found ELSE NoId, FALSE)
        /\ lastOp' = Op("update", "contact", ok, PassContactPresent)
        /\ hist' = Faulted(ok)
    /\ UNCHANGED <<RetryVars, Catalog, run>>

\* lines 103-108 and 110-114
CreateNewContact ==
    /\ mig.pc = "CreateNewContact"
    /\ \E ok \in BOOLEAN :
        /\ MayBe(ok)
        /\ hub' = IF ok THEN CreateContact(hub, PassContactObj) ELSE hub
        /\ mig' = ContactResult(mig, IF ok THEN hub.nextId ELSE NoId, ok)
        /\ lastOp' = Op("create", "contact", ok, PassContactPresent)
        /\ hist' = Faulted(ok)
    /\ UNCHANGED <<RetryVars, Catalog, run>>

\* The location and the company properties of the pass under way.
PassUrl == origin[PassCharacter]
PassCompanyObj == LocationToCompanyMapping(PassUrl)
PassCompanyPresent == CompaniesNamed(PassCompanyObj.name) # {}

\* lines 283-284; a failure is caught at line 291
GetLocationByUrl ==
    /\ mig.pc = "GetLocationByUrl"
    /\ \E ok \in BOOLEAN :
        /\ MayBe(ok)
        /\ mig' = IF ok THEN [mig EXCEPT !.pc = "FindCompany"]
                        ELSE [mig EXCEPT !.pc = "CreateAssociation"]
        /\ lastOp' = Op("fetch", "location", ok, FALSE)
        /\ hist' = Faulted(ok)
    /\ UNCHANGED <<RetryVars, Catalog, hub, run>>

\* lines 129-141 and 158-162: the search by name, limit 1
FindCompany ==
    /\ mig.pc = "FindCompany"
    /\ \E ok \in BOOLEAN :
        /\ MayBe(ok)
        /\ \/ /\ ok /\ PassCompanyPresent
              /\ \E c \in CompaniesNamed(PassCompanyObj.name) :
                    mig' = [mig EXCEPT !.pc = "UpdateFoundCompany", !.found = c.id]
           \/ /\ ok /\ ~PassCompanyPresent
              /\ mig' = [mig EXCEPT !.pc = "CreateNewCompany"]
           \/ /\ ~ok
              /\ mig' = CompanyResult(mig, NoId)
        /\ lastOp' = Op("search", "company", ok, PassCompanyPresent)
        /\ hist' = [Faulted(ok) EXCEPT !.companySearched = Append(@, PassUrl)]
    /\ UNCHANGED <<RetryVars, Catalog, hub, run>>

\* lines 143-149 and 158-162
UpdateFoundCompany ==
    /\ mig.pc = "UpdateFoundCompany"
    /\ \E ok \in BOOLEAN :
        /\ MayBe(ok)
        /\ hub' = IF ok THEN UpdateCompany(hub, mig.found, PassCompanyObj) ELSE hub
        /\ mig' = CompanyResult(mig, IF ok THEN mig.found ELSE NoId)
        /\ lastOp' = Op("update", "company", ok, PassCompanyPresent)
        /\ hist' = Faulted(ok)
    /\ UNCHANGED <<RetryVars, Catalog, run>>

\* lines 151-156 and 158-162
CreateNewCompany ==
    /\ mig.pc = "CreateNewCompany"
    /\ \E ok \in BOOLEAN :
        /\ MayBe(ok)
        /\ hub' = IF ok THEN CreateCompany(hub, PassCompanyObj) ELSE hub
        /\ mig' = CompanyResult(mig, IF ok THEN hub.nextId ELSE NoId)
        /\ lastOp' = Op("create", "company", ok, PassCompanyPresent)
        /\ hist' = Faulted(ok)
    /\ UNCHANGED <<RetryVars, Catalog, run>>

NextCharacter(m) == EnterCharacter([m EXCEPT !.k = @ + 1])

BothIdsMissing(contactHubspotId, companyHubspotId) ==
    contactHubspotId = NoId /\ companyHubspotId = NoId

\* line 174: if (!contactHubspotId || !companyHubspotId)
MissingIds(contactHubspotId, companyHubspotId) ==
    contactHubspotId = NoId \/ companyHubspotId = NoId

AssociationRethrown(m) == [m EXCEPT !.pc = "Failed"]

\* lines 191-194: the error of the association call is logged, and
\* createAssociation returns
AssociationCaught(m) == NextCharacter(m)

\* lines 173-195 and 298: createAssociation for the character of the pass
AssociateCharacter ==
    /\ mig.pc = "CreateAssociation"
    /\ LET pair == <<mig.contactHubspotId, mig.companyHubspotId>> IN
       \/ /\ MissingIds(pair[1], pair[2])
          /\ mig' = NextCharacter(mig)
          /\ lastOp' = Skipped
          /\ UNCHANGED <<hub, hist>>
       \/ /\ ~MissingIds(pair[1], pair[2])
          /\ \E ok \in BOOLEAN :
              /\ MayBe(ok)
              /\ hub' = IF ok THEN CreateAssociation(hub, pair[1], pair[2]) ELSE hub
              /\ mig' = IF ok THEN NextCharacter(mig) ELSE AssociationCaught(mig)
              /\ lastOp' = AssociateOp(ok, pair)
              /\ hist' = [Faulted(ok) EXCEPT !.associated = Append(@, pair)]
    /\ UNCHANGED <<RetryVars, Catalog, run>>

NextPerCharacter ==
    \/ StartPerCharacterMigration
    \/ GetFirstCharactersInfo
    \/ GetCharactersPage
    \/ FindContact
    \/ UpdateFoundContact
    \/ CreateNewContact
    \/ GetLocationByUrl
    \/ FindCompany
    \/ UpdateFoundCompany
    \/ CreateNewCompany
    \/ AssociateCharacter

SpecPerCharacter == InitPerCharacter /\ [][NextPerCharacter]_vars

\* The per-character pass makes the contact search once for each character to
\* migrate, in order, whatever the outcome of the characters before it.
PassResolvesEveryContactOnce ==
    mig.pc = "Done" => hist.searched = mig.charactersToMigrate

PassResolvesContactAfterFailure ==
    /\ mig.pc = "Done"
    /\ Len(hist.searched) >= 2
    /\ mig.contactsFailed >= 1
    /\ mig.contactsCreated + mig.contactsUpdated >= 1

\* The association calls phase 3 has to make for the contacts resolved in
\* phase 2, in their order: the contact's identity with the identity cached
\* for the origin link of its character, when there is one.
RECURSIVE ExpectedAssociations(_)
ExpectedAssociations(contacts) ==
    IF contacts = <<>> THEN <<>>
    ELSE LET contact == Head(contacts)
             companyId == CompanyIdFor(CharacterOf(contact))
         IN  (IF companyId # NoId THEN << <<contact.id, companyId>> >> ELSE <<>>)
             \o ExpectedAssociations(Tail(contacts))

\* C25: phase 3 makes exactly one association call for every contact that was
\* resolved in phase 2 and whose origin link has a cached company identity,
\* with that identity, and no other association call: none for a contact
\* whose resolve failed, none before phase 3.
C25_OneAssociationPerResolvedContact ==
    /\ mig.pc = "Done" =>
          hist.associated = ExpectedAssociations(mig.createdOrUpdatedContacts)
    /\ mig.pc = "Associate" =>
          hist.associated =
              ExpectedAssociations(SubSeq(mig.createdOrUpdatedContacts, 1, mig.k - 1))
    /\ mig.pc \notin {"Associate", "Done"} /\ Running => hist.associated = <<>>

\* The contact of character 1 failed, the contact of character 2 was
\* resolved and associated with the cached company of its origin.
C25_Witness ==
    /\ mig.pc = "Done"
    /\ mig.charactersToMigrate = <<1, 2>>
    /\ Len(mig.createdOrUpdatedContacts) = 1
    /\ mig.createdOrUpdatedContacts[1].character_id = NumberToString(2)
    /\ Len(hist.associated) = 1
    /\ hist.associated[1] = <<mig.createdOrUpdatedContacts[1].id, CompanyIdFor(2)>>
    /\ CompanyIdFor(2) # NoId

\* The positions of the resolve of a company after its search.
CompanyWritePositions == {"UpdateCompany", "CreateCompany", "CreateCompanyAfterError"}

\* C26: when the destination holds two or more companies with the name being
\* resolved and the search has returned one of them, the resolve creates no
\* record and leaves every record other than the one returned unchanged.
C26_DuplicatesOnlyFirstUpdated ==
    [][(/\ mig.pc \in CompanyWritePositions
        /\ mig.found # NoId
        /\ Cardinality(CompaniesNamed(CompanyObj.name)) >= 2)
          => /\ { c.id : c \in hub'.companies } = { c.id : c \in hub.companies }
             /\ \A c \in hub.companies : c.id # mig.found => c \in hub'.companies]_vars

\* C29 as stated: records are handled one after another, the association call
\* for a record being made before any remote call for the next record: when
\* an association call is made, the last contact search made is the one of
\* the record being associated.
C29_AssociatedBeforeNextRecord ==
    [][(mig.pc = "Associate" /\ lastOp'.op = "associate")
          => CharacterOf(CurrentContact) = hist.searched[Len(hist.searched)]]_vars

\* C29 amended: the remote calls are made one at a time and in the order of
\* the records within each phase; when the association call of a record is
\* made, the contact of every record has been searched (phase 2 is over) and
\* the association calls of the records before it have been made.
C29_AssociatedAfterAllContactsInOrder ==
    [][(mig.pc = "Associate" /\ lastOp'.op = "associate")
          => /\ hist.searched = mig.charactersToMigrate
             /\ hist.associated =
                    ExpectedAssociations(SubSeq(mig.createdOrUpdatedContacts, 1, mig.k - 1))
             /\ hist'.associated = Append(hist.associated, lastOp'.pair)
             /\ lastOp'.pair[1] = CurrentContact.id]_vars

\* The association call of character 1 has been made after the contact of
\* character 2 was searched.
C29_Witness ==
    /\ lastOp.op = "associate"
    /\ hist.searched = <<1, 2>>
    /\ Len(mig.createdOrUpdatedContacts) = 2
    /\ Len(hist.associated) = 1
    /\ hist.associated[1][1] = mig.createdOrUpdatedContacts[1].id

\* The positions of phase 1 at which a company is written.
CompanyWrites == {"UpdateCompany", "CreateCompany", "CreateCompanyAfterError"}
\* The positions of phase 2 at which a contact is written.
ContactWrites == {"UpdateContact", "CreateContact", "CreateContactAfterError"}

\* C36: the identity cache changes only when a run starts or ends (it is then
\* empty) or when a company create or update of the link under way has
\* succeeded, and it then holds the identity of the record written; a contact
\* is kept only with the identity of a contact create or update that has
\* succeeded; and every association call uses the identity of a contact so
\* kept together with the cached identity of the origin link of its character.
C36_CacheAndAssociationsFromThisRun ==
    /\ [][\A u \in Urls :
            mig'.companyLocationMap[u] # mig.companyLocationMap[u] =>
                \/ /\ mig'.pc \in {"GetInfo", "Interrupted"}
                   /\ mig'.companyLocationMap[u] = NoId
                \/ /\ mig.pc \in CompanyWrites
                   /\ u = mig.uniqueLocationUrls[mig.k]
                   /\ lastOp'.ok /\ lastOp'.kind = "company"
                   /\ lastOp'.op \in {"create", "update"}
                   /\ \E c \in hub'.companies :
                        /\ c.id = mig'.companyLocationMap[u]
                        /\ c.name = LocationToCompanyMapping(u).name]_vars
    /\ [][mig'.createdOrUpdatedContacts # mig.createdOrUpdatedContacts =>
                \/ /\ mig'.pc \in {"GetInfo", "Interrupted"}
                   /\ mig'.createdOrUpdatedContacts = <<>>
                \/ /\ mig.pc \in ContactWrites
                   /\ lastOp'.ok /\ lastOp'.kind = "contact"
                   /\ lastOp'.op \in {"create", "update"}
                   /\ \E c \in hub'.contacts :
                        /\ mig'.createdOrUpdatedContacts =
                              Append(mig.createdOrUpdatedContacts,
                                     [id |-> c.id, character_id |-> c.character_id])
                        /\ c.character_id =
                              NumberToString(mig.charactersToMigrate[mig.k])]_vars
    /\ [][(mig.pc = "Associate" /\ lastOp'.op = "associate") =>
                \E n \in 1 .. Len(mig.createdOrUpdatedContacts),
                   character \in 1 .. TotalCharacters :
                    /\ lastOp'.pair[1] = mig.createdOrUpdatedContacts[n].id
                    /\ NumberToString(character) =
                          mig.createdOrUpdatedContacts[n].character_id
                    /\ InSeq(character, mig.charactersToMigrate)
                    /\ origin[character] # NoUrl
                    /\ mig.companyLocationMap[origin[character]] # NoId
                    /\ lastOp'.pair[2] = mig.companyLocationMap[origin[character]]]_vars

\* A run has ended with an association call for a cached company, while the
\* resolve of another origin link has failed and has left no cache entry.
C36_Witness ==
    /\ mig.pc = "Done"
    /\ lastOp.op = "associate" /\ lastOp.ok
    /\ \E u, v \in Urls :
        /\ u # v
        /\ mig.companyLocationMap[u] = lastOp.pair[2]
        /\ InSeq(v, mig.uniqueLocationUrls)
        /\ mig.companyLocationMap[v] = NoId

\* C30: each run starts with an empty identity cache, and what the cache holds
\* in a run was written by that run: an entry is the identity of a company
\* resolved in this run, and an association call uses such an entry.
C30_CacheRebuiltEachRun ==
    /\ [][(mig'.pc = "GetInfo" /\ mig.pc # "GetInfo")
            => \A u \in Urls : mig'.companyLocationMap[u] = NoId]_vars
    /\ [](\A u \in Urls :
            mig.companyLocationMap[u] # NoId => InSeq(u, hist.companySearched))
    /\ [](mig.pc \in {"Associate", "Done"} =>
            \A n \in 1 .. Len(hist.associated) :
            \E u \in Urls : /\ InSeq(u, hist.companySearched)
                            /\ hist.associated[n][2] = mig.companyLocationMap[u])

\* The first run cached the company of location/1 and associated a contact
\* with it; in the second run the resolve of location/1 failed, the cache has
\* no entry for it and no association call was made.
C30_Witness ==
    /\ run = "second" /\ mig.pc = "Done"
    /\ hist.firstDone /\ hist.afterFirst.assocs # {}
    /\ mig.companyLocationMap["location/1"] = NoId
    /\ Len(mig.createdOrUpdatedContacts) >= 1
    /\ hist.associated = <<>>

\* C24: within one run the company resolve of an origin link is executed at
\* most once, however many selected contacts refer to the link and whether
\* the resolve succeeded or failed: no link is searched twice.
C24_CompanyResolvedOncePerLink ==
    \A a, b \in 1 .. Len(hist.companySearched) :
        hist.companySearched[a] = hist.companySearched[b] => a = b

\* C23: a contact whose character_id is already present in the destination
\* is not created when it is resolved, even when its display name, and so its
\* derived email, differs from the stored record's: the create that follows a
\* search that returned nothing is made only when no contact of the
\* destination has that character_id.
C23_PresentCharacterIdIsNotCreated ==
    [][(mig.pc = "CreateContact" /\ lastOp'.op = "create" /\ lastOp'.ok) => ~ContactPresent]_vars

\* The positions at which a run makes the existence-check search of a record,
\* and those at which it makes a create.
SearchPositions == {"SearchCompany", "SearchContact", "FindCompany", "FindContact"}
CreatePositions ==
    {"CreateCompany", "CreateContact", "CreateCompanyAfterError", "CreateContactAfterError",
     "CreateNewCompany", "CreateNewContact"}

\* C22: when the existence-check search for a record fails, the resolver goes
\* on to issue a create for that record, and the record is not counted as
\* failed by the failed search.
C22_FailedSearchFallsBackToCreate ==
    [][(mig.pc \in SearchPositions /\ ~lastOp'.ok)
          => (mig'.pc \in CreatePositions /\ mig'.k = mig.k)]_vars

MaxCatalogId == 830

\* hubspotMigrationService.js:102-103: the ids the collection loop fetches
SelectedByLoop(id, totalCharacters) ==
    id \in 1 .. Min(MAX_CHARACTER_ID, totalCharacters) /\ IsSelected(id)

\* unnamed/part_001:232-236: the characters the filter keeps
SelectedByFilter(id) == FilterCharacters(<<id>>) # <<>>

InitSelection ==
    /\ retry = RetryInit
    /\ attempts = <<>>
    /\ origin = <<>>
    /\ locName = <<>>
    /\ hub = <<>>
    /\ run = "first"
    /\ lastOp = NoCall
    /\ hist = <<>>
    /\ \E id \in 1 .. MaxCatalogId :
          mig = [pc |-> "Candidate", id |-> id, totalCharacters |-> MaxCatalogId,
                 byLoop |-> FALSE, byFilter |-> FALSE]

\* The selection is applied to one character of the catalog.
SelectCharacter ==
    /\ mig.pc = "Candidate"
    /\ mig' = [mig EXCEPT !.pc = "Decided",
                          !.byLoop = SelectedByLoop(mig.id, mig.totalCharacters),
                          !.byFilter = SelectedByFilter(mig.id)]
    /\ UNCHANGED <<RetryVars, Catalog, hub, run, lastOp, hist>>

NextSelection == SelectCharacter

SpecSelection == InitSelection /\ [][NextSelection]_vars

\* A prime number: greater than 1 and without a divisor other than 1 and itself.
IsPrimeNumber(n) == n > 1 /\ \A d \in 2 .. n - 1 : n % d # 0

\* C13: an id from 1 to 826 is selected, by the collection loop and by the
\* filter, if and only if it is 1 or a prime number; an id above 826 is not
\* selected; over 1..20 the selected ids are 1, 2, 3, 5, 7, 11, 13, 17, 19.
C13_SelectsOneAndPrimesUpTo826 ==
    /\ mig.pc = "Decided" =>
        LET wanted == mig.id <= MAX_CHARACTER_ID /\ (mig.id = 1 \/ IsPrimeNumber(mig.id))
        IN  (mig.byLoop <=> wanted) /\ (mig.byFilter <=> wanted)
    /\ { i \in 1 .. 20 : IsSelected(i) } = {1, 2, 3, 5, 7, 11, 13, 17, 19}

\* The prime 827 is above the cap and is not selected.
C13_Witness ==
    /\ mig.pc = "Decided"
    /\ mig.id = 827 /\ IsPrimeNumber(mig.id)
    /\ ~mig.byLoop /\ ~mig.byFilter

\* The run is reading the catalog / has read it and is past the filter.
ReadingCatalog == mig.pc \in {"GetInfo", "GetPage"}
PastFilter == mig.pc \notin {"Idle", "GetInfo", "GetPage", "Failed"}

\* C28: in the paged catalog read the selection predicate is applied to no
\* record before every record of every page has been collected, and the
\* characters selected are the characters of all the pages whose id is 1 or
\* a prime number, in the order of the catalog.
C28_FilterAfterAllPages ==
    /\ ReadingCatalog => mig.charactersToMigrate = <<>>
    /\ ReadingCatalog =>
          mig.allCharacters = IdsFromTo(1, Min((mig.page - 1) * PageSize, TotalCharacters))
    /\ PastFilter =>
          /\ mig.allCharacters = IdsFromTo(1, TotalCharacters)
          /\ \A id \in 1 .. TotalCharacters :
                InSeq(id, mig.charactersToMigrate) <=> (id = 1 \/ IsPrimeNumber(id))
          /\ \A a, b \in 1 .. Len(mig.charactersToMigrate) :
                a < b => mig.charactersToMigrate[a] < mig.charactersToMigrate[b]

\* More than one page was read and a character of the last page is selected.
C28_Witness ==
    /\ mig.pc = "FindContact"
    /\ mig.totalPages >= 2
    /\ Len(mig.allCharacters) = TotalCharacters
    /\ \E n \in 1 .. Len(mig.charactersToMigrate) :
          InSeq(mig.charactersToMigrate[n], PageResults(mig.totalPages))

\* The positions of a pass at which findOrCreateContact is under way.
FindOrCreateContact == {"FindContact", "UpdateFoundContact", "CreateNewContact"}
\* The characters the counters have counted.
Counted == mig.contactsCreated + mig.contactsUpdated + mig.contactsFailed

\* C37: in the loop of the per-character migration each character increments
\* exactly one of contactsCreated, contactsUpdated and contactsFailed, by one:
\* the three add up to the number of characters whose contact has been
\* processed, and to the number of selected characters at the end.
C37_CountersAddUpToProcessed ==
    /\ [](PastFilter =>
            Counted = IF mig.pc = "Done" THEN Len(mig.charactersToMigrate)
                      ELSE IF mig.pc \in FindOrCreateContact THEN mig.k - 1
                      ELSE mig.k)
    /\ [][Counted' # Counted =>
            \/ mig'.pc = "GetInfo" /\ Counted' = 0
            \/ /\ mig.pc \in FindOrCreateContact
               /\ Counted' = Counted + 1
               /\ mig'.contactsCreated >= mig.contactsCreated
               /\ mig'.contactsUpdated >= mig.contactsUpdated
               /\ mig'.contactsFailed >= mig.contactsFailed]_vars

\* The loop has ended after two characters: the contact of one was written,
\* that of the other failed.
C37_Witness ==
    /\ mig.pc = "Done"
    /\ Len(mig.charactersToMigrate) = 2
    /\ mig.contactsFailed = 1
    /\ mig.contactsCreated + mig.contactsUpdated = 1

(***************************************************************************)
(* The webhook upserts (routes/webhookRoutes.js)                           *)
(***************************************************************************)
\* The calls of upsertContact and upsertCompany under way at the same time.
Callers == {"a", "b"}

\* The option retries of async-retry (lines 90 and 202)
WEBHOOK_RETRIES == 3

\* The number of remote calls that fail in one behaviour of the webhooks.
MaxWebhookFaults == 4

\* A field the payload does not carry.
Missing == ""

ContactPayloads ==
    { [kind |-> "contact", character_id |-> cid, email |-> email,
       name |-> Missing, company_name |-> company] :
        cid \in {Missing, "1"}, email \in {Missing, "rick@rickandmorty.com"},
        company \in {Missing, "Earth"} }
CompanyPayloads ==
    { [kind |-> "company", character_id |-> Missing, email |-> Missing,
       name |-> name, company_name |-> Missing] : name \in {Missing, "Earth"} }
Payloads == ContactPayloads \cup CompanyPayloads

\* lines 46-54 and 191/196: the properties written for the payload
PayloadProperties(data) ==
    IF data.kind = "contact"
    THEN [email |-> data.email, character_id |-> data.character_id]
    ELSE [name |-> data.name]

PayloadAlwaysValid(data) == TRUE

\* lines 40 and 166: the required fields
PayloadValid(data) ==
    IF data.kind = "contact"
    THEN data.character_id # Missing /\ data.email # Missing
    ELSE data.name # Missing

\* lines 62-71 and 176-185: the records the search of the payload matches
PayloadMatches(data) ==
    IF data.kind = "contact"
    THEN ContactsWithCharacterId(data.character_id)
    ELSE CompaniesNamed(data.name)

WebhookSeedContact ==
    [id |-> 2, email |-> "rick@rickandmorty.com", character_id |-> "1"]
WebhookInitialHubs ==
    { [companies |-> {}, contacts |-> {}, assocs |-> {}, nextId |-> FirstFreeId],
      [companies |-> {SeedCompany}, contacts |-> {WebhookSeedContact}, assocs |-> {},
       nextId |-> FirstFreeId] }

\* What a remote call does: it succeeds; it fails and the destination is
\* unchanged; it fails although the destination has applied it (the answer
\* was lost or timed out).
RemoteOutcomes == {"ok", "failed", "lost"}
Applied(outcome) == outcome \in {"ok", "lost"}

\* The frame of one call of upsertContact or upsertCompany.
NoData == [kind |-> "none", character_id |-> Missing, email |-> Missing,
           name |-> Missing, company_name |-> Missing]
CallInit ==
    [pc |-> "Idle", data |-> NoData, executions |-> 0, found |-> NoId,
     contactId |-> NoId, companyId |-> NoId, action |-> "none",
     existedBefore |-> FALSE, hasCreated |-> FALSE]

InitWebhook ==
    /\ retry = RetryInit
    /\ attempts = <<>>
    /\ origin = <<>>
    /\ locName = <<>>
    /\ hub \in WebhookInitialHubs
    /\ mig = [c \in Callers |-> CallInit]
    /\ run = "first"
    /\ lastOp = NoCall
    /\ hist = [faults |-> 0]

WebhookMayBe(outcome) == outcome = "ok" \/ hist.faults < MaxWebhookFaults
WebhookFaulted(outcome) == [hist EXCEPT !.faults = IF outcome = "ok" THEN @ ELSE @ + 1]

RetryUnitForever(f) == [f EXCEPT !.pc = "Search", !.found = NoId]

\* async-retry: the function is run again after an error until it has been
\* run 1 + retries times; then the last error is thrown (lines 104-111, 210-217).
RetryUnit(f) ==
    IF f.executions < 1 + WEBHOOK_RETRIES
    THEN [f EXCEPT !.pc = "Search", !.executions = @ + 1, !.found = NoId]
    ELSE [f EXCEPT !.pc = "Thrown"]

\* lines 98-103 and 209: after the unit has returned its action
UnitReturned(f) ==
    IF f.data.kind = "contact" /\ f.data.company_name # Missing /\ f.contactId # NoId
    THEN [f EXCEPT !.pc = "SearchAssociatedCompany"]
    ELSE [f EXCEPT !.pc = "Returned"]

WebhookFrame == <<RetryVars, Catalog, run>>

\* lines 34-43 and 162-169: the payload is validated and the unit is run
EnterUpsert(data) ==
    IF PayloadValid(data)
    THEN [RetryUnit(CallInit) EXCEPT !.data = data,
                                     !.existedBefore = PayloadMatches(data) # {}]
    ELSE [CallInit EXCEPT !.pc = "Thrown", !.data = data]

\* The record a search with limit 1 returns: one of those that match, or none.
Picks(matches) == IF matches = {} THEN {NoId} ELSE { r.id : r \in matches }

\* Each step of a call gives the destination, the frame of the call and the
\* remote call made.
\* lines 62-73 and 176-187: the search by the natural key, limit 1
SearchExistingStep(f, outcome, pick) ==
    [hub |-> hub,
     frame |-> IF outcome # "ok" THEN RetryUnit(f)
               ELSE IF pick # NoId THEN [f EXCEPT !.pc = "Update", !.found = pick]
               ELSE [f EXCEPT !.pc = "Create"],
     op |-> Op("search", f.data.kind, outcome = "ok", PayloadMatches(f.data) # {})]

\* lines 75-79 and 189-192: the update of the record found
UpdateExistingStep(f, outcome) ==
    [hub |-> IF ~Applied(outcome) THEN hub
             ELSE IF f.data.kind = "contact"
                  THEN UpdateContact(hub, f.found, PayloadProperties(f.data))
                  ELSE UpdateCompany(hub, f.found, PayloadProperties(f.data)),
     frame |-> IF outcome = "ok"
               THEN UnitReturned([f EXCEPT !.action = "updated",
                                           !.contactId = IF f.data.kind = "contact"
                                                         THEN f.found ELSE NoId])
               ELSE RetryUnit(f),
     op |-> Op("update", f.data.kind, outcome = "ok", TRUE)]

\* lines 81-86 and 194-198: the create when the search found nothing
CreateNewStep(f, outcome) ==
    [hub |-> IF ~Applied(outcome) THEN hub
             ELSE IF f.data.kind = "contact"
                  THEN CreateContact(hub, PayloadProperties(f.data))
                  ELSE CreateCompany(hub, PayloadProperties(f.data)),
     frame |-> IF outcome = "ok"
               THEN UnitReturned([f EXCEPT !.action = "created",
                                           !.hasCreated = TRUE,
                                           !.contactId = IF f.data.kind = "contact"
                                                         THEN hub.nextId ELSE NoId])
               ELSE RetryUnit([f EXCEPT !.hasCreated = @ \/ outcome = "lost"]),
     op |-> Op("create", f.data.kind, outcome = "ok", PayloadMatches(f.data) # {})]

AssociationThrown(f) == [f EXCEPT !.pc = "Thrown", !.action = "none"]

\* lines 145-152: the catch of handleCompanyAssociation logs the error
AssociationLogged(f) == [f EXCEPT !.pc = "Returned"]

\* lines 120-133 and 143-153: handleCompanyAssociation searches the company
SearchAssociatedCompanyStep(f, outcome, pick) ==
    [hub |-> hub,
     frame |-> IF outcome # "ok" THEN AssociationLogged(f)
               ELSE IF pick # NoId
               THEN [f EXCEPT !.pc = "AssociateCompany", !.companyId = pick]
               ELSE [f EXCEPT !.pc = "Returned"],
     op |-> Op("search", "associated company", outcome = "ok",
               CompaniesNamed(f.data.company_name) # {})]

\* lines 134-142 and 146-153: handleCompanyAssociation associates the pair
AssociateCompanyStep(f, outcome) ==
    [hub |-> IF Applied(outcome) THEN CreateAssociation(hub, f.contactId, f.companyId)
                                 ELSE hub,
     frame |-> IF outcome = "ok" THEN [f EXCEPT !.pc = "Returned"]
               ELSE AssociationLogged(f),
     op |-> AssociateOp(outcome = "ok", <<f.contactId, f.companyId>>)]

\* What the remote call of a step can do and what its search can return.
StepOutcomes(f) ==
    IF f.pc \in {"Search", "SearchAssociatedCompany"} THEN {"ok", "failed"}
    ELSE RemoteOutcomes
StepPicks(f) ==
    IF f.pc = "Search" THEN Picks(PayloadMatches(f.data))
    ELSE IF f.pc = "SearchAssociatedCompany" THEN Picks(CompaniesNamed(f.data.company_name))
    ELSE {NoId}

\* The next remote call of a call of upsertContact or upsertCompany.
UpsertStep(f, outcome, pick) ==
    CASE f.pc = "Search" -> SearchExistingStep(f, outcome, pick)
      [] f.pc = "Update" -> UpdateExistingStep(f, outcome)
      [] f.pc = "Create" -> CreateNewStep(f, outcome)
      [] f.pc = "SearchAssociatedCompany" -> SearchAssociatedCompanyStep(f, outcome, pick)
      [] f.pc = "AssociateCompany" -> AssociateCompanyStep(f, outcome)

\* The call c makes its next remote call.
CallStep(c) ==
    /\ \E outcome \in StepOutcomes(mig[c]), pick \in StepPicks(mig[c]) :
        LET step == UpsertStep(mig[c], outcome, pick) IN
        /\ WebhookMayBe(outcome)
        /\ hub' = step.hub
        /\ mig' = [mig EXCEPT ![c] = step.frame]
        /\ lastOp' = step.op
        /\ hist' = WebhookFaulted(outcome)
    /\ UNCHANGED WebhookFrame

\* POST /webhook/contacts or /webhook/companies: the call is received
Upsert(c) ==
    /\ mig[c].pc = "Idle"
    /\ \E data \in Payloads : mig' = [mig EXCEPT ![c] = EnterUpsert(data)]
    /\ lastOp' = NoCall
    /\ UNCHANGED <<WebhookFrame, hub, hist>>

SearchExisting(c) ==
    /\ mig[c].pc = "Search"
    /\ CallStep(c)
UpdateExisting(c) ==
    /\ mig[c].pc = "Update"
    /\ CallStep(c)
CreateNew(c) ==
    /\ mig[c].pc = "Create"
    /\ CallStep(c)
SearchAssociatedCompany(c) ==
    /\ mig[c].pc = "SearchAssociatedCompany"
    /\ CallStep(c)
AssociateCompany(c) ==
    /\ mig[c].pc = "AssociateCompany"
    /\ CallStep(c)

NextWebhook ==
    \E c \in Callers :
        \/ Upsert(c)
        \/ SearchExisting(c)
        \/ UpdateExisting(c)
        \/ CreateNew(c)
        \/ SearchAssociatedCompany(c)
        \/ AssociateCompany(c)

SpecWebhook == InitWebhook /\ [][NextWebhook]_vars

\* C14: when upsertContact or upsertCompany has returned, it has returned
\* 'created' if and only if the call created a record in the destination,
\* and 'updated' if and only if a record with the payload's natural key was
\* in the destination when the call was made.
C14_StatusTellsWhatHappened ==
    \A c \in Callers :
        mig[c].pc = "Returned" =>
            /\ mig[c].action = "created" <=> mig[c].hasCreated
            /\ mig[c].action = "updated" <=> mig[c].existedBefore

\* The payload lacks a required field: character_id or email for a contact,
\* name for a company.
LacksRequiredField(data) ==
    \/ data.kind = "contact" /\ (data.character_id = Missing \/ data.email = Missing)
    \/ data.kind = "company" /\ data.name = Missing

\* C33: upsertContact called without character_id or without email, and
\* upsertCompany called without name, throw before any remote call is made
\* and leave the destination unchanged.
C33_MissingFieldFailsBeforeAnyCall ==
    /\ [][\A c \in Callers :
            (mig[c].pc = "Idle" /\ mig'[c] # mig[c] /\ LacksRequiredField(mig'[c].data))
            => (mig'[c].pc = "Thrown" /\ hub' = hub /\ lastOp' = NoCall)]_vars
    /\ [](\A c \in Callers :
            LacksRequiredField(mig[c].data) =>
                (mig[c].pc = "Thrown" /\ mig[c].executions = 0 /\ mig[c].action = "none"))

\* A contact without email and a company without name have been refused, and
\* the destination holds what it held.
C33_Witness ==
    /\ mig["a"].pc = "Thrown" /\ mig["a"].data.kind = "contact"
    /\ mig["a"].data.character_id = "1" /\ mig["a"].data.email = Missing
    /\ mig["b"].pc = "Thrown" /\ mig["b"].data.kind = "company"
    /\ mig["b"].data.name = Missing
    /\ hub \in WebhookInitialHubs

\* The positions of the company association step of upsertContact.
AssociationPositions == {"SearchAssociatedCompany", "AssociateCompany"}

\* C32: whatever the company association step of upsertContact does (company
\* not found, search failure, association failure), the call does not throw
\* and keeps the 'created' or 'updated' status of the contact write, which is
\* what it returns.
C32_AssociationNeverChangesResult ==
    [][\A c \in Callers :
          (mig[c].pc \in AssociationPositions /\ mig'[c] # mig[c])
          => /\ mig'[c].pc \in AssociationPositions \cup {"Returned"}
             /\ mig'[c].action = mig[c].action
             /\ mig[c].action \in {"created", "updated"}]_vars

\* A call has returned 'created' after its association call failed.
C32_Witness ==
    \E c \in Callers :
        /\ mig[c].pc = "Returned"
        /\ mig[c].action = "created"
        /\ lastOp.op = "associate" /\ ~lastOp.ok
        /\ lastOp.pair[1] = mig[c].contactId

\* C35: when the calls for the same natural key have ended, however their
\* search and create steps interleaved, the destination holds at most one
\* contact with a given character_id and at most one company with a given name.
C35_OneRecordPerNaturalKey ==
    (\A c \in Callers : mig[c].pc \in {"Returned", "Thrown"}) =>
        /\ \A r1, r2 \in hub.contacts :
              r1.character_id = r2.character_id => r1.id = r2.id
        /\ \A r1, r2 \in hub.companies : r1.name = r2.name => r1.id = r2.id

\* The positions of the search-then-write unit of a call.
UnitPositions == {"Search", "Update", "Create"}

\* C31: a search, create or update call of upsertContact or upsertCompany that
\* is rejected (bad request, conflict: it fails and the destination has not
\* applied it) is surfaced to the caller at once: the call throws and the
\* search-then-write unit is not executed again.
C31_RejectedCallIsNotRetried ==
    [][\A c \in Callers :
          ( /\ mig[c].pc \in UnitPositions
            /\ mig'[c] # mig[c]
            /\ ~lastOp'.ok
            /\ hub' = hub )
          => (mig'[c].pc = "Thrown" /\ mig'[c].executions = mig[c].executions)]_vars

(***************************************************************************)
(* POST /sync: the full sync to the mirror account (unnamed/part_006)      *)
(***************************************************************************)
\* The source account: its contacts, each with the name of the company it is
\* associated with or none, and the names of its companies.
SourceContacts ==
    << [character_id |-> "1", email |-> "rick@rickandmorty.com", company |-> "Earth"],
       [character_id |-> "2", email |-> "morty@rickandmorty.com", company |-> "Earth"],
       [character_id |-> "3", email |-> "summer@rickandmorty.com", company |-> Missing] >>
SourceCompanies == << [name |-> "Earth"], [name |-> "Abadango"] >>

\* paging.next.after of the last page, and the after of the first request
NoCursor == 0

\* basicApi.getPage(100, after, ...): the page at the cursor and the next cursor
PageAt(records, after) ==
    LET page == IF after = NoCursor THEN 1 ELSE after IN
    [results |-> SubSeq(records, (page - 1) * PageSize + 1,
                        Min(page * PageSize, Len(records))),
     next |-> IF page * PageSize < Len(records) THEN page + 1 ELSE NoCursor]

\* lines 54-62: the locals of the handler
SyncInit ==
    [pc |-> "Idle", after |-> NoCursor, next |-> NoCursor, results |-> <<>>, k |-> 1,
     call |-> CallInit, contactsSynced |-> 0, companiesSynced |-> 0]

InitSync ==
    /\ retry = RetryInit
    /\ attempts = <<>>
    /\ origin = <<>>
    /\ locName = <<>>
    /\ hub \in WebhookInitialHubs
    /\ mig = SyncInit
    /\ run = "first"
    /\ lastOp = NoCall
    /\ hist = [seen |-> {}, pageFetchFailed |-> FALSE]

\* lines 81-86: the payload of upsertContact for a contact of the source
SourceContactData(contact, company_name) ==
    [kind |-> "contact", character_id |-> contact.character_id, email |-> contact.email,
     name |-> Missing, company_name |-> company_name]

\* line 118: the payload of upsertCompany for a company of the source
SourceCompanyData(company) ==
    [kind |-> "company", character_id |-> Missing, email |-> Missing,
     name |-> company.name, company_name |-> Missing]

\* lines 107-135: the loop over the companies of a page, then the next page
EnterSyncCompany(m) ==
    IF m.k <= Len(m.results)
    THEN [m EXCEPT !.pc = "UpsertCompany",
                   !.call = EnterUpsert(SourceCompanyData(m.results[m.k]))]
    ELSE IF m.next # NoCursor
         THEN [m EXCEPT !.pc = "GetCompaniesPage", !.after = m.next]
         ELSE [m EXCEPT !.pc = "Done", !.after = m.next]

\* lines 77-109: the loop over the contacts of a page, then the next page,
\* then the companies
EnterSyncContact(m) ==
    IF m.k <= Len(m.results)
    THEN [m EXCEPT !.pc = "GetCompanyName"]
    ELSE IF m.next # NoCursor
         THEN [m EXCEPT !.pc = "GetContactsPage", !.after = m.next]
         ELSE [m EXCEPT !.pc = "GetCompaniesPage", !.after = NoCursor]

\* The kind of remote call the history remembers: a company resolve, a
\* contact resolve, an association (with its company lookup), a read.
CallClass(op) ==
    IF op.op = "associate" \/ op.kind = "associated company" THEN "association"
    ELSE IF op.op \in {"search", "update", "create"} THEN op.kind
    ELSE "read"
Seen(op) == [hist EXCEPT !.seen = @ \cup {CallClass(op)}]

\* POST /sync is called.
StartSync ==
    /\ mig.pc = "Idle"
    /\ mig' = [SyncInit EXCEPT !.pc = "GetContactsPage"]
    /\ lastOp' = NoCall
    /\ UNCHANGED <<WebhookFrame, hub, hist>>

\* lines 67-75: a page of contacts; a failure is caught at line 140
GetContactsPage ==
    /\ mig.pc = "GetContactsPage"
    /\ \E ok \in BOOLEAN :
        /\ mig' = IF ok
                  THEN LET page == PageAt(SourceContacts, mig.after) IN
                       EnterSyncContact([mig EXCEPT !.results = page.results,
                                                    !.next = page.next, !.k = 1])
                  ELSE [mig EXCEPT !.pc = "Failed"]
        /\ lastOp' = Op("fetch", "contacts page", ok, FALSE)
        /\ hist' = [hist EXCEPT !.pageFetchFailed = @ \/ ~ok]
    /\ UNCHANGED <<WebhookFrame, hub>>

\* lines 25-52 and 79-86: getCompanyNameForContact, null on an error; then
\* upsertContact is entered
GetCompanyName ==
    /\ mig.pc = "GetCompanyName"
    /\ \E ok \in BOOLEAN :
        LET contact == mig.results[mig.k]
            company_name == IF ok THEN contact.company ELSE Missing IN
        /\ mig' = [mig EXCEPT !.pc = "UpsertContact",
                              !.call = EnterUpsert(SourceContactData(contact, company_name))]
        /\ lastOp' = Op("fetch", "company name", ok, FALSE)
    /\ UNCHANGED <<WebhookFrame, hub, hist>>

\* line 86 (and lines 87, 93-99): the next remote call of upsertContact
UpsertContactStep ==
    /\ mig.pc = "UpsertContact"
    /\ \E outcome \in StepOutcomes(mig.call), pick \in StepPicks(mig.call) :
        LET step == UpsertStep(mig.call, outcome, pick) IN
        /\ hub' = step.hub
        /\ mig' = IF step.frame.pc = "Returned"
                  THEN EnterSyncContact([mig EXCEPT !.call = step.frame,
                                                    !.contactsSynced = @ + 1, !.k = @ + 1])
                  ELSE IF step.frame.pc = "Thrown"
                       THEN EnterSyncContact([mig EXCEPT !.call = step.frame, !.k = @ + 1])
                       ELSE [mig EXCEPT !.call = step.frame]
        /\ lastOp' = step.op
        /\ hist' = Seen(step.op)
    /\ UNCHANGED WebhookFrame

\* line 114: a page of companies; a failure is caught at line 140
GetCompaniesPage ==
    /\ mig.pc = "GetCompaniesPage"
    /\ \E ok \in BOOLEAN :
        /\ mig' = IF ok
                  THEN LET page == PageAt(SourceCompanies, mig.after) IN
                       EnterSyncCompany([mig EXCEPT !.results = page.results,
                                                    !.next = page.next, !.k = 1])
                  ELSE [mig EXCEPT !.pc = "Failed"]
        /\ lastOp' = Op("fetch", "companies page", ok, FALSE)
        /\ hist' = [hist EXCEPT !.pageFetchFailed = @ \/ ~ok]
    /\ UNCHANGED <<WebhookFrame, hub>>

\* line 118 (and lines 119, 125-131): the next remote call of upsertCompany
UpsertCompanyStep ==
    /\ mig.pc = "UpsertCompany"
    /\ \E outcome \in StepOutcomes(mig.call), pick \in StepPicks(mig.call) :
        LET step == UpsertStep(mig.call, outcome, pick) IN
        /\ hub' = step.hub
        /\ mig' = IF step.frame.pc = "Returned"
                  THEN EnterSyncCompany([mig EXCEPT !.call = step.frame,
                                                    !.companiesSynced = @ + 1, !.k = @ + 1])
                  ELSE IF step.frame.pc = "Thrown"
                       THEN EnterSyncCompany([mig EXCEPT !.call = step.frame, !.k = @ + 1])
                       ELSE [mig EXCEPT !.call = step.frame]
        /\ lastOp' = step.op
        /\ hist' = Seen(step.op)
    /\ UNCHANGED WebhookFrame

NextSync ==
    \/ StartSync
    \/ GetContactsPage
    \/ GetCompanyName
    \/ UpsertContactStep
    \/ GetCompaniesPage
    \/ UpsertCompanyStep

SpecSync == InitSync /\ [][NextSync]_vars
SpecSyncLive == SpecSync /\ WF_vars(NextSync)

C17_CompaniesThenContactsThenAssociations ==
    /\ CallClass(lastOp) = "company" => hist.seen \cap {"contact", "association"} = {}
    /\ CallClass(lastOp) = "contact" => "association" \notin hist.seen

(***************************************************************************)
(* The mappers applied to any character                                    *)
(***************************************************************************)
\* The length of a name and the ids of the characters the mappers get.
MaxNameLen == 2
MaxMappedId == 12

\* Letters of both cases, a digit, whitespace and punctuation.
NameChars == {"R", "k", "1", " ", "'", "."}
NamesUpTo(n) == UNION { [1 .. len -> NameChars] : len \in 0 .. n }

InitMappers ==
    /\ retry = RetryInit
    /\ attempts = <<>>
    /\ origin = <<>>
    /\ locName = <<>>
    /\ hub = <<>>
    /\ run = "first"
    /\ lastOp = NoCall
    /\ hist = <<>>
    /\ \E name \in NamesUpTo(MaxNameLen), id \in 1 .. MaxMappedId :
          mig = [pc |-> "Character", name |-> name, id |-> id,
                 contact |-> <<>>, contactAlnum |-> <<>>]

\* characterToContactMapping of the service and of the per-character
\* migration, applied to one character
MapCharacter ==
    /\ mig.pc = "Character"
    /\ mig' = [mig EXCEPT !.pc = "Mapped",
                          !.contact = ContactProperties(mig.name, mig.id),
                          !.contactAlnum = ContactPropertiesAlnum(mig.name, mig.id)]
    /\ UNCHANGED <<RetryVars, Catalog, hub, run, lastOp, hist>>

NextMappers == MapCharacter

SpecMappers == InitMappers /\ [][NextMappers]_vars

\* C15: for every name and every positive id, the email each mapper returns
\* is not empty and passes the email-format check.
C15_EmailAlwaysValid ==
    mig.pc = "Mapped" =>
        /\ mig.contact.email # <<>> /\ IsValidEmail(mig.contact.email)
        /\ mig.contactAlnum.email # <<>> /\ IsValidEmail(mig.contactAlnum.email)

\* C34: two characters with different ids get different emails, whatever
\* their names, from the mapper of the service and from the mapper of the
\* per-character migration.
C34_DifferentIdsDifferentEmails ==
    mig.pc = "Mapped" =>
        \A name \in NamesUpTo(MaxNameLen), id \in 1 .. MaxMappedId :
            id # mig.id =>
                /\ ContactProperties(name, id).email # mig.contact.email
                /\ ContactPropertiesAlnum(name, id).email # mig.contactAlnum.email

HasNoAlphanumeric(name) == \A n \in 1 .. Len(name) : ~IsLetter(name[n]) /\ ~IsDigit(name[n])

\* C16 as stated: for a name without an alphanumeric character the primary
\* address fails the email-format check and the mapper returns the fallback.
C16_FallbackForNameWithoutAlphanumeric ==
    (mig.pc = "Mapped" /\ HasNoAlphanumeric(mig.name)) =>
        /\ ~IsValidEmail(PrimaryEmail(mig.name, mig.id))
        /\ mig.contactAlnum.email = FallbackEmail(mig.id)
        /\ IsValidEmail(mig.contactAlnum.email)

\* C16 amended: for a name without an alphanumeric character the primary
\* address is the id followed by @rickandmorty.com; it passes the
\* email-format check and is what the mapper returns, not the fallback.
C16_IdOnlyPrimaryForNameWithoutAlphanumeric ==
    (mig.pc = "Mapped" /\ HasNoAlphanumeric(mig.name)) =>
        /\ PrimaryEmail(mig.name, mig.id) = NumberToString(mig.id) \o <<"@">> \o EmailDomain
        /\ IsValidEmail(PrimaryEmail(mig.name, mig.id))
        /\ mig.contactAlnum.email = PrimaryEmail(mig.name, mig.id)
        /\ mig.contactAlnum.email # FallbackEmail(mig.id)
        /\ mig.contactAlnum.email # <<>>

C16_Witness ==
    /\ mig.pc = "Mapped"
    /\ mig.name = <<"'", " ">>
    /\ mig.id = 7
    /\ mig.contactAlnum.email = <<"7", "@">> \o EmailDomain

(***************************************************************************)
(* fullSync: the source account to the mirror account (app.js)             *)
(***************************************************************************)
\* The source account: its companies and its contacts, each contact with its
\* character_id, its email and associatedcompanyid, the id of its company in
\* the source account.
MirrorSourceCompanies == << [id |-> 101, name |-> "Earth"] >>
MirrorSourceContacts ==
    << [character_id |-> "1", email |-> "rick@rickandmorty.com", associatedcompanyid |-> 101],
       [character_id |-> "2", email |-> Missing, associatedcompanyid |-> NoId],
       [character_id |-> Missing, email |-> "summer@rickandmorty.com", associatedcompanyid |-> 101] >>
SourceCompanyIds == { MirrorSourceCompanies[n].id : n \in 1 .. Len(MirrorSourceCompanies) }

\* The contacts the mirror account can hold at the start: one with the
\* character_id of the first source contact and another email, one with its
\* email and another character_id.
MirrorById == [id |-> 1, character_id |-> "1", email |-> "old@rickandmorty.com"]
MirrorByEmail == [id |-> 2, character_id |-> "9", email |-> "rick@rickandmorty.com"]
MirrorInitialHubs ==
    { [companies |-> cs, contacts |-> ts, assocs |-> {}, nextId |-> FirstFreeId + 1] :
        cs \in {{}, {[id |-> FirstFreeId, name |-> "Earth"]}},
        ts \in SUBSET {MirrorById, MirrorByEmail} }

\* line 10 and the locals of syncCompanies and syncContacts
FullSyncInit ==
    [pc |-> "Idle", k |-> 1,
     companyIdMap |-> [c \in SourceCompanyIds |-> NoId],
     allMirrorCompanies |-> {},
     mirrorContact |-> NoId,
     upsertedContact |-> NoId]

InitFullSync ==
    /\ retry = RetryInit
    /\ attempts = <<>>
    /\ origin = <<>>
    /\ locName = <<>>
    /\ hub \in MirrorInitialHubs
    /\ mig = FullSyncInit
    /\ run = "first"
    /\ lastOp = NoCall
    /\ hist = [ops |-> <<>>, finished |-> FALSE]

\* The remote calls made for the contact being synchronised; the first call
\* for a contact starts the list again.
Logged(op, finished) ==
    [ops |-> (IF hist.finished THEN <<>> ELSE hist.ops) \o <<op>>, finished |-> finished]

\* lines 102-112: the loop over allSourceContacts
EnterMirrorContact(m) ==
    IF m.k > Len(MirrorSourceContacts)
    THEN [m EXCEPT !.pc = "Done"]
    ELSE IF MirrorSourceContacts[m.k].character_id = Missing
         THEN [m EXCEPT !.pc = "SkipContact"]
         ELSE [m EXCEPT !.pc = "SearchByCharacterId", !.mirrorContact = NoId,
                        !.upsertedContact = NoId]

NextMirrorContact(m) == EnterMirrorContact([m EXCEPT !.k = @ + 1])

\* lines 37-46: the loop over allSourceCompanies
EnterMirrorCompany(m) ==
    IF m.k > Len(MirrorSourceCompanies)
    THEN [m EXCEPT !.pc = "GetContactPages", !.k = 1]
    ELSE [m EXCEPT !.pc = "SyncCompany"]

\* lines 252-254: the server starts and calls fullSync
StartFullSync ==
    /\ mig.pc = "Idle"
    /\ mig' = [mig EXCEPT !.pc = "GetCompanyPages"]
    /\ UNCHANGED <<RetryVars, Catalog, hub, run, lastOp, hist>>

\* lines 22-35: every page of the companies of the source and of the mirror;
\* an error goes to the catch of fullSync (lines 237-242)
GetCompanyPages ==
    /\ mig.pc = "GetCompanyPages"
    /\ \E ok \in BOOLEAN :
        /\ mig' = IF ok
                  THEN EnterMirrorCompany([mig EXCEPT !.allMirrorCompanies = hub.companies])
                  ELSE [mig EXCEPT !.pc = "Failed"]
        /\ lastOp' = Op("fetch", "company pages", ok, FALSE)
    /\ UNCHANGED <<RetryVars, Catalog, hub, run, hist>>

\* lines 47-77: one company, found by name in allMirrorCompanies, updated or
\* created, and its identity put in companyIdMap; an error is logged
SyncCompany ==
    /\ mig.pc = "SyncCompany"
    /\ LET company == MirrorSourceCompanies[mig.k]
           found == { c \in mig.allMirrorCompanies : c.name = company.name }
           props == [name |-> company.name]
       IN \E ok \in BOOLEAN :
            \/ /\ found # {}
               /\ \E c \in found :
                    /\ hub' = IF ok THEN UpdateCompany(hub, c.id, props) ELSE hub
                    /\ mig' = EnterMirrorCompany(
                                [mig EXCEPT !.k = @ + 1,
                                            !.companyIdMap[company.id] = IF ok THEN c.id ELSE @])
                    /\ lastOp' = Op("update", "company", ok, TRUE)
            \/ /\ found = {}
               /\ hub' = IF ok THEN CreateCompany(hub, props) ELSE hub
               /\ mig' = EnterMirrorCompany(
                            [mig EXCEPT !.k = @ + 1,
                                        !.companyIdMap[company.id] = IF ok THEN hub.nextId ELSE @])
               /\ lastOp' = Op("create", "company", ok, FALSE)
    /\ UNCHANGED <<RetryVars, Catalog, run, hist>>

\* lines 92-100: every page of the contacts of the source; an error goes to
\* the catch of fullSync
GetContactPages ==
    /\ mig.pc = "GetContactPages"
    /\ \E ok \in BOOLEAN :
        /\ mig' = IF ok THEN EnterMirrorContact(mig) ELSE [mig EXCEPT !.pc = "Failed"]
        /\ lastOp' = Op("fetch", "contact pages", ok, FALSE)
    /\ UNCHANGED <<RetryVars, Catalog, hub, run, hist>>

\* lines 107-110: a contact without character_id is skipped
SkipContact ==
    /\ mig.pc = "SkipContact"
    /\ mig' = NextMirrorContact(mig)
    /\ hist' = [ops |-> <<>>, finished |-> TRUE]
    /\ UNCHANGED <<RetryVars, Catalog, hub, run, lastOp>>

EmailSearchAlways(mirrorContact, email) == email # Missing

\* line 137: if (!mirrorContact && email)
EmailSearchNeeded(mirrorContact, email) == mirrorContact = NoId /\ email # Missing

\* lines 190-195: the catch of the contact
MirrorContactFailed(m) == NextMirrorContact(m)

\* line 167: if (mirrorContact) update, else create
EnterUpsertContact(m) ==
    [m EXCEPT !.pc = IF m.mirrorContact # NoId THEN "UpdateMirrorContact"
                     ELSE "CreateMirrorContact"]

\* lines 117-134: the search by character_id, limit 1
SearchByCharacterId ==
    /\ mig.pc = "SearchByCharacterId"
    /\ LET contact == MirrorSourceContacts[mig.k]
           matches == ContactsWithCharacterId(contact.character_id)
       IN \E ok \in BOOLEAN :
            /\ \/ /\ ~ok
                  /\ mig' = MirrorContactFailed(mig)
               \/ /\ ok
                  /\ \E id \in IF matches = {} THEN {NoId} ELSE { c.id : c \in matches } :
                        mig' = IF EmailSearchNeeded(id, contact.email)
                               THEN [mig EXCEPT !.pc = "SearchByEmail", !.mirrorContact = id]
                               ELSE EnterUpsertContact([mig EXCEPT !.mirrorContact = id])
            /\ lastOp' = Op("search", "character_id", ok, matches # {})
            /\ hist' = Logged(lastOp', mig'.k # mig.k)
    /\ UNCHANGED <<RetryVars, Catalog, hub, run>>

\* lines 137-154: the search by email, limit 1
SearchByEmail ==
    /\ mig.pc = "SearchByEmail"
    /\ LET contact == MirrorSourceContacts[mig.k]
           matches == ContactsWithEmail(contact.email)
       IN \E ok \in BOOLEAN :
            /\ \/ /\ ~ok
                  /\ mig' = MirrorContactFailed(mig)
               \/ /\ ok
                  /\ \E id \in IF matches = {} THEN {mig.mirrorContact}
                               ELSE { c.id : c \in matches } :
                        mig' = EnterUpsertContact([mig EXCEPT !.mirrorContact = id])
            /\ lastOp' = Op("search", "email", ok, matches # {})
            /\ hist' = Logged(lastOp', mig'.k # mig.k)
    /\ UNCHANGED <<RetryVars, Catalog, hub, run>>

\* lines 156-164: the properties written to the mirror contact
MirrorContactProperties(contact) ==
    [character_id |-> contact.character_id, email |-> contact.email]

\* lines 184-188: the association is made when the contact names a company
EnterAssociation(m, upserted) ==
    IF MirrorSourceContacts[m.k].associatedcompanyid # NoId
    THEN [m EXCEPT !.pc = "AssociateContactWithCompany", !.upsertedContact = upserted]
    ELSE NextMirrorContact([m EXCEPT !.upsertedContact = upserted])

\* lines 167-173: basicApi.update of the contact found
UpdateMirrorContact ==
    /\ mig.pc = "UpdateMirrorContact"
    /\ \E ok \in BOOLEAN :
        /\ hub' = IF ok
                  THEN UpdateContact(hub, mig.mirrorContact,
                                     MirrorContactProperties(MirrorSourceContacts[mig.k]))
                  ELSE hub
        /\ mig' = IF ok THEN EnterAssociation(mig, mig.mirrorContact)
                  ELSE MirrorContactFailed(mig)
        /\ lastOp' = Op("update", "contact", ok, TRUE)
        /\ hist' = Logged(lastOp', mig'.k # mig.k)
    /\ UNCHANGED <<RetryVars, Catalog, run>>

\* lines 174-181: basicApi.create of a new contact
CreateMirrorContact ==
    /\ mig.pc = "CreateMirrorContact"
    /\ \E ok \in BOOLEAN :
        /\ hub' = IF ok
                  THEN CreateContact(hub, MirrorContactProperties(MirrorSourceContacts[mig.k]))
                  ELSE hub
        /\ mig' = IF ok THEN EnterAssociation(mig, hub.nextId)
                  ELSE MirrorContactFailed(mig)
        /\ lastOp' = Op("create", "contact", ok, FALSE)
        /\ hist' = Logged(lastOp', mig'.k # mig.k)
    /\ UNCHANGED <<RetryVars, Catalog, run>>

\* lines 205-226: the mirror company is looked up in companyIdMap; without
\* one the association is skipped; an error of the call is logged
AssociateContactWithCompany ==
    /\ mig.pc = "AssociateContactWithCompany"
    /\ LET mirrorCompanyId == mig.companyIdMap[MirrorSourceContacts[mig.k].associatedcompanyid]
           pair == <<mig.upsertedContact, mirrorCompanyId>>
       IN \/ /\ mirrorCompanyId = NoId
             /\ hist' = [hist EXCEPT !.finished = TRUE]
             /\ lastOp' = Skipped
             /\ UNCHANGED hub
          \/ /\ mirrorCompanyId # NoId
             /\ \E ok \in BOOLEAN :
                  /\ hub' = IF ok THEN CreateAssociation(hub, pair[1], pair[2]) ELSE hub
                  /\ lastOp' = AssociateOp(ok, pair)
                  /\ hist' = Logged(lastOp', TRUE)
    /\ mig' = NextMirrorContact(mig)
    /\ UNCHANGED <<RetryVars, Catalog, run>>

NextFullSync ==
    \/ StartFullSync
    \/ GetCompanyPages
    \/ SyncCompany
    \/ GetContactPages
    \/ SkipContact
    \/ SearchByCharacterId
    \/ SearchByEmail
    \/ UpdateMirrorContact
    \/ CreateMirrorContact
    \/ AssociateContactWithCompany

SpecFullSync == InitFullSync /\ [][NextFullSync]_vars

\* The calls of one kind among the calls made for the contact.
OpsOf(op) == { n \in 1 .. Len(hist.ops) : hist.ops[n].op = op }
EmailSearches == { n \in OpsOf("search") : hist.ops[n].kind = "email" }
SearchMatched == \E n \in OpsOf("search") : hist.ops[n].ok /\ hist.ops[n].present
SearchesFoundNothing ==
    /\ OpsOf("search") # {}
    /\ \A n \in OpsOf("search") : hist.ops[n].ok /\ ~hist.ops[n].present

\* C21: in the contact sync of the source to the mirror, the search by email
\* is issued only after a search by character_id that returned no result; once
\* a contact is handled, a match by either key has led to exactly one update
\* and no create, and no match by both to exactly one create and no update.
C21_EmailSearchOnlyAfterIdMiss ==
    /\ \A n \in EmailSearches :
          /\ n = 2
          /\ hist.ops[1].op = "search" /\ hist.ops[1].kind = "character_id"
          /\ hist.ops[1].ok /\ ~hist.ops[1].present
    /\ (hist.finished /\ SearchMatched) =>
          (Cardinality(OpsOf("update")) = 1 /\ OpsOf("create") = {})
    /\ (hist.finished /\ SearchesFoundNothing) =>
          (Cardinality(OpsOf("create")) = 1 /\ OpsOf("update") = {})

\* The first source contact was found by its email after the search by
\* character_id found nothing, and was updated.
C21_Witness ==
    /\ hist.finished
    /\ Len(hist.ops) >= 3
    /\ hist.ops[1] = Op("search", "character_id", TRUE, FALSE)
    /\ hist.ops[2] = Op("search", "email", TRUE, TRUE)
    /\ hist.ops[3] = Op("update", "contact", TRUE, TRUE)
    /\ [id |-> 2, character_id |-> "1", email |-> "rick@rickandmorty.com"] \in hub.contacts

(***************************************************************************)
(* fetchDataWithRetry of the Rick and Morty client (unnamed/part_003)      *)
(***************************************************************************)
\* lines 102-103
MAX_RETRIES == 3
RETRY_DELAY_MS == 1000

\* error.response?.status of an error that carries no response
NoResponse == 0

\* The errors axios.get throws: a timeout and a reset connection carry no
\* response, the others carry the status of the response.
FetchErrors ==
    { [code |-> "ECONNABORTED", status |-> NoResponse],
      [code |-> "ECONNRESET", status |-> NoResponse] }
        \cup { [code |-> "ERR_BAD_REQUEST", status |-> st] : st \in {400, 404, 429} }
        \cup { [code |-> "ERR_BAD_RESPONSE", status |-> st] : st \in {500, 503} }
NoFetchError == [code |-> "none", status |-> NoResponse]

\* One call of fetchDataWithRetry with its recursive calls: retries is the
\* argument of the innermost call, requests counts the calls of axios.get,
\* errors lists what they threw, delays what was slept.
FetchInit ==
    [pc |-> "Idle", retries |-> 0, requests |-> 0, errors |-> <<>>, delays |-> <<>>,
     thrown |-> NoFetchError]

InitFetch ==
    /\ retry = RetryInit
    /\ attempts = <<>>
    /\ origin = <<>>
    /\ locName = <<>>
    /\ hub = <<>>
    /\ mig = FetchInit
    /\ run = "first"
    /\ lastOp = NoCall
    /\ hist = <<>>

RetryWhatever(retries, error) == retries < MAX_RETRIES

\* line 110: the condition of the retry
ShouldRetry(retries, error) ==
    /\ retries < MAX_RETRIES
    /\ \/ error.code = "ECONNABORTED"
       \/ error.status = 429
       \/ (error.status # NoResponse /\ error.status >= 500)

\* line 112: RETRY_DELAY_MS * Math.pow(2, retries)
FetchRetryDelay(retries) == RETRY_DELAY_MS * Pow2(retries)

\* line 105: fetchDataWithRetry(url, config) is called, retries = 0
FetchDataWithRetry ==
    /\ mig.pc = "Idle"
    /\ mig' = [mig EXCEPT !.pc = "Get"]
    /\ UNCHANGED <<RetryVars, Catalog, hub, run, lastOp, hist>>

\* lines 107-108: axios.get returns and its data is returned
AxiosGetReturns ==
    /\ mig.pc = "Get"
    /\ mig' = [mig EXCEPT !.pc = "Returned", !.requests = @ + 1]
    /\ UNCHANGED <<RetryVars, Catalog, hub, run, lastOp, hist>>

\* lines 107 and 109-115: axios.get throws; the error is retried or rethrown
AxiosGetThrows ==
    /\ mig.pc = "Get"
    /\ \E error \in FetchErrors :
        mig' = IF ShouldRetry(mig.retries, error)
               THEN [mig EXCEPT !.pc = "Wait", !.requests = @ + 1,
                                !.errors = Append(@, error)]
               ELSE [mig EXCEPT !.pc = "Thrown", !.requests = @ + 1,
                                !.errors = Append(@, error), !.thrown = error]
    /\ UNCHANGED <<RetryVars, Catalog, hub, run, lastOp, hist>>

\* lines 112-113: the delay, then fetchDataWithRetry(url, config, retries + 1)
WaitAndRetry ==
    /\ mig.pc = "Wait"
    /\ mig' = [mig EXCEPT !.pc = "Get", !.retries = @ + 1,
                          !.delays = Append(@, FetchRetryDelay(mig.retries))]
    /\ UNCHANGED <<RetryVars, Catalog, hub, run, lastOp, hist>>

NextFetch ==
    \/ FetchDataWithRetry
    \/ AxiosGetReturns
    \/ AxiosGetThrows
    \/ WaitAndRetry

SpecFetch == InitFetch /\ [][NextFetch]_vars

\* An error that is a 429, a 5xx status or ECONNABORTED.
TransientFetchError(error) ==
    \/ error.code = "ECONNABORTED"
    \/ error.status = 429
    \/ error.status \in 500 .. 599

\* C38: fetchDataWithRetry issues at most 4 requests whatever fails; when the
\* fourth request fails the call rethrows its error, and what the call throws
\* is always the error of its last request; an error that is not a 429, a 5xx
\* status or ECONNABORTED is rethrown by the request that met it, with no
\* further request: after a single request when it is the first error.
C38_AtMostFourRequestsThenLastError ==
    /\ mig.requests <= 4
    /\ mig.requests = Len(mig.errors) + (IF mig.pc = "Returned" THEN 1 ELSE 0)
    /\ Len(mig.errors) = 4 => mig.pc = "Thrown"
    /\ mig.pc = "Thrown" => mig.thrown = mig.errors[Len(mig.errors)]
    /\ \A n \in 1 .. Len(mig.errors) :
          ~TransientFetchError(mig.errors[n]) =>
              /\ n = Len(mig.errors)
              /\ mig.requests = n
              /\ mig.pc = "Thrown"
              /\ mig.thrown = mig.errors[n]

\* Four requests have failed with transient errors, the delays have doubled,
\* and the error of the fourth has been rethrown.
C38_Witness ==
    /\ mig.pc = "Thrown"
    /\ mig.requests = 4
    /\ mig.delays = <<1000, 2000, 4000>>
    /\ mig.errors[1].status = 429
    /\ mig.errors[2].code = "ECONNABORTED"
    /\ mig.errors[3].status = 503
    /\ mig.thrown = [code |-> "ERR_BAD_RESPONSE", status |-> 500]
====
